---- MODULE Spec2Model ----
(***************************************************************************)
(* A model of the REASSEMBLY rust engine: the task scheduler               *)
(* (scheduler.rs) and the memory pool (memory.rs).                         *)
(*                                                                         *)
(* Every `lock.write().await.op(..)` statement of the scheduler takes and  *)
(* drops its guard within one statement and is one atomic step here.  The  *)
(* only guards that outlive a statement are the `active` guards of         *)
(* TaskScheduler::cancel (the `if let` scrutinee temporary, alive through  *)
(* the body) and of TaskScheduler::monitor_loop (the `let active`          *)
(* binding); activeLock records them.                                      *)
(***************************************************************************)
EXTENDS Integers, Sequences, FiniteSets, TLC

\* ---------------------------------------------------------------- bounds
NumTasks == 2
NumWorkers == 1
\* the pool: its size in bytes, the largest request, the buffers it may
\* create, the threads calling it, the length of its free list
PoolTotal == 2
MaxSize == 2
MaxBuffers == 2
NumCallers == 2
MaxFree == 2
\* the pushes on a PriorityQueues driven directly
MaxPushes == 3
\* the backends registered with an engine
MaxBackends == 2
\* the backend hints of a computation
MaxHints == 1
\* the schedulers built from one set of backends
NumRuns == 2
\* the length of a byte string committed to or verified
MaxData == 2
\* the leaves added to a Merkle tree
MaxLeaves == 3
\* the participants of a threshold signature and the add_share calls made
MaxParticipants == 3
MaxShares == 3
\* the GPU providers of an aggregator, the GPUs one listing returns, and
\* the refresh_inventory calls that run side by side
NumProviders == 2
MaxListing == 1
NumRefreshers == 2
MaxInventory == 3
MaxComputation == 3
NumJobs == 3
MaxPicks == 3
NumGpuJobs == 3
NumLockers == 3
DeviceMemory == 4
MaxLive == 3

Tasks == 1..NumTasks
Workers == 1..NumWorkers
NoTask == 0

\* ------------------------------------------------------- scheduler types
\* enum Priority
Low == 0
Normal == 1
High == 2
Critical == 3
Priority == {Low, Normal, High, Critical}
\* the priorities tasks are submitted with
SubmitPriorities == {Low, Critical}

\* enum TaskStatus; None is Option::None of status()
St(tag, data) == [tag |-> tag, data |-> data]
None == St("None", "")
Pending == St("Pending", "")
Running == St("Running", "")
Completed(output) == St("Completed", output)
Failed(msg) == St("Failed", msg)
Cancelled == St("Cancelled", "")

\* what Backend::execute can resolve to: Ok(bytes) or Err(e)
BackendResults == {Completed("out"), Failed("backend error")}

\* backend names a scheduler can be built with, and Option<String> hints
NoBackend == "none"
BackendSets == {{}, {"cpu"}}
HintChoices == {NoBackend}

NoHandle == [status |-> None, backend |-> NoBackend, cancel_tx |-> FALSE]
NoAttrs == [priority |-> Normal, dependencies |-> {}, backend_hint |-> NoBackend]

VARIABLES
    \* TaskScheduler
    backends,      \* the registered backends (keys of the map)
    queues,        \* PriorityQueues: four FIFO bands of task ids
    active,        \* HashMap<TaskId, TaskHandle>, NoHandle = absent
    completed,     \* HashMap<TaskId, TaskStatus>, None = absent
    shutdown,      \* the shutdown flag
    activeLock,    \* "free", "cancel" (write guard of cancel), "monitor" (read guard)
    \* tasks
    task,          \* the Task given to submit: priority, dependencies, backend_hint
    expired,       \* the active ids with now - created_at > timeout
    \* control state
    phase,         \* where the call handling task t stands
    toCheck,       \* dependencies_met: the dependencies not yet looked up
    result,        \* execute_task: the local `status`
    cancel_rx,     \* execute_task: the oneshot receiver, "none" | "open" | "sent"
    wpc,           \* worker_loop position
    wtask,         \* the task a worker popped and is handling
    mon,           \* monitor_loop position
    cancelId,      \* the id of the cancel call that holds the active guard
    \* history
    cancelledPending  \* the unfinished ids cancel was called on while they sat in a queue

schedVars == <<backends, queues, active, completed, shutdown, activeLock, task,
               expired, phase, toCheck, result, cancel_rx, wpc, wtask, mon,
               cancelId, cancelledPending>>

VARIABLES
    \* MemoryPool
    allocated,     \* the AtomicUsize counter
    free_buffers,  \* the SegQueue of returned buffers
    all_buffers,   \* the buffers the pool tracks
    buf,           \* the MemoryBuffer behind each id: capacity, size, gpu_locked
    created,       \* how many MemoryBuffers were created
    held,          \* the Arc<MemoryBuffer>s each calling thread holds
    owned,         \* the buffers allocate returned to a thread and it has not freed since
    call           \* each thread's call in progress and its locals

poolVars == <<allocated, free_buffers, all_buffers, buf, created, held, owned, call>>

VARIABLES
    \* MemoryBuffer
    data,          \* the bytes of each MemoryBuffer (the Vec behind its RwLock)
    bcall          \* each thread's MemoryBuffer::write in progress

bufferVars == <<data, bcall>>

VARIABLES
    \* ReassemblyEngine
    exec           \* each caller's ReassemblyEngine::execute in progress

engineVars == <<exec>>

VARIABLES
    \* a PriorityQueues driven directly (it lives in `queues`)
    pushed,        \* the priority of each task pushed, in push order
    popped         \* what the last pop returned, NoTask for None

queueVars == <<pushed, popped>>

VARIABLES
    \* ReassemblyEngine::select_backend
    registered,    \* self.backends in registration order: type and is_available()
    policy,        \* the AdaptiveScheduler's SchedulingPolicy
    large,         \* the computation's input is larger than 100 MB
    hints,         \* the computation's backend_hints
    selected       \* the call's result: the index of the backend, 0 for Err

selectVars == <<registered, policy, large, hints, selected>>

VARIABLES
    \* TaskScheduler::select_backend over the HashMap of backends
    key_order,     \* per scheduler, the order in which its HashMap yields the keys
    chosen         \* per scheduler, the task's hint and what select_backend returned

strategyVars == <<key_order, chosen>>

VARIABLES
    \* the backends of an engine: shutdown and the dispatch of execute
    engine_backends, \* the backend types ReassemblyEngine::new registered
    web3_provider,   \* self.web3_provider is Some
    shut,            \* the backends whose shutdown() has returned
    last             \* the last execute: who called, on what, and what ran

dispatchVars == <<engine_backends, web3_provider, shut, last>>

VARIABLES
    \* VerificationEngine: commitments
    engine_kind,   \* verification.rs (signed) or verification_simple.rs
    cdata,         \* the bytes create_commitment was given
    commitment,    \* the ComputeCommitment it returned
    vdata,         \* the bytes verify_commitment was given
    verdict        \* what verify_commitment returned

commitVars == <<engine_kind, cdata, commitment, vdata, verdict>>

VARIABLES
    \* MerkleTree
    leaves,        \* self.leaves: the leaf hashes in add_leaf order
    nodes,         \* self.nodes: the inner hashes build pushed
    root,          \* self.root, NoRoot for None
    proof,         \* what the last prove returned, NoProof for None
    verified       \* what the last verify_proof returned

merkleVars == <<leaves, nodes, root, proof, verified>>

VARIABLES
    \* ThresholdSignature
    threshold,     \* self.threshold
    participants,  \* self.participants
    shares         \* self.shares: the index of each share kept, in push order

thresholdVars == <<threshold, participants, shares>>

VARIABLES
    \* Web3GpuAggregator: the inventory
    gpu_inventory, \* the Vec behind self.gpu_inventory's RwLock
    refresh,       \* per refresh_inventory call: providers asked, all_gpus, failures
    seen           \* the inventory the last select_gpu read under the lock

inventoryVars == <<gpu_inventory, refresh, seen>>

VARIABLES
    \* Web3GpuAggregator::select_gpu: the inventory read, the requirements
    \* passed, the value returned
    inventory, requirements, gpu_choice

chooseVars == <<inventory, requirements, gpu_choice>>

VARIABLES
    \* WarpSpeedProcessor.level, each caller's enhance_computation in
    \* progress, the last value enhance_computation returned
    warp_level, warp_call, enhanced

warpVars == <<warp_level, warp_call, enhanced>>

VARIABLES
    \* TaskScheduler with one backend: the queues, the tasks submitted, the
    \* status of each
    serve_queues, serve_task, serve_status,
    \* how many times each task was handed to execute_task
    serve_runs,
    \* the parity of the worker's ticks
    serve_tick

serveVars == <<serve_queues, serve_task, serve_status, serve_tick, serve_runs>>

VARIABLES
    \* the backends of an engine, the key order of a TaskScheduler's backend
    \* map, and the selections each has made so far
    rr_registered, rr_keys, engine_picks, scheduler_picks

rotateVars == <<rr_registered, rr_keys, engine_picks, scheduler_picks>>

VARIABLES
    \* Web3GpuAggregator.active_jobs by job id, the allocations made at the
    \* providers and not released, Web3GpuBackend.active_allocation, and
    \* where each execute stands
    active_jobs, provider_allocations, active_allocation, gpu_call

allocateVars == <<active_jobs, provider_allocations, active_allocation, gpu_call>>

VARIABLES
    \* MemoryBuffer.gpu_locked and .pinned, the callers whose lock_for_gpu
    \* (pin) returned Ok and who have not unlocked (unpinned) since, and
    \* what each caller's last lock_for_gpu (pin) returned
    lock_flag, pin_flag, lock_holders, pin_holders, lock_last, pin_last

flagVars == <<lock_flag, pin_flag, lock_holders, pin_holders, lock_last, pin_last>>

VARIABLES
    \* GpuMemoryAllocator.allocated, the handles allocate returned that were
    \* not freed, and an allocate call between its load and its fetch_add
    gpu_allocated, live_handles, device_call

deviceVars == <<gpu_allocated, live_handles, device_call>>

VARIABLES
    \* DagScheduler: the kind of each node in dag.nodes, and the guard of
    \* the dag lock ("free" | "write")
    dag_nodes, dag_guard

dagVars == <<dag_nodes, dag_guard>>

vars == <<schedVars, poolVars, bufferVars, engineVars, queueVars, selectVars, strategyVars, dispatchVars, commitVars, merkleVars, thresholdVars, inventoryVars, chooseVars, warpVars, serveVars, rotateVars, allocateVars, flagVars, deviceVars, dagVars>>

\* what the scheduler's steps, the pool's, the buffers' and the engine's
\* leave alone
notSchedVars == <<poolVars, bufferVars, engineVars, queueVars, selectVars, strategyVars, dispatchVars, commitVars, merkleVars, thresholdVars, inventoryVars, chooseVars, warpVars, serveVars, rotateVars, allocateVars, flagVars, deviceVars, dagVars>>
notPoolVars == <<schedVars, bcall, engineVars, queueVars, selectVars, strategyVars, dispatchVars, commitVars, merkleVars, thresholdVars, inventoryVars, chooseVars, warpVars, serveVars, rotateVars, allocateVars, flagVars, deviceVars, dagVars>>
notBufferVars == <<schedVars, allocated, free_buffers, all_buffers, created, held, owned, call,
                   engineVars, queueVars, selectVars, strategyVars, dispatchVars, commitVars, merkleVars, thresholdVars, inventoryVars, chooseVars, warpVars, serveVars, rotateVars, allocateVars, flagVars, deviceVars, dagVars>>
notEngineVars == <<schedVars, bcall, queueVars, selectVars, strategyVars, dispatchVars, commitVars, merkleVars, thresholdVars, inventoryVars, chooseVars, warpVars, serveVars, rotateVars, allocateVars, flagVars, deviceVars, dagVars>>
notQueueVars == <<backends, active, completed, shutdown, activeLock, task, expired, phase,
                  toCheck, result, cancel_rx, wpc, wtask, mon, cancelId, cancelledPending,
                  poolVars, bufferVars, engineVars, selectVars, strategyVars, dispatchVars, commitVars, merkleVars, thresholdVars, inventoryVars, chooseVars, warpVars, serveVars, rotateVars, allocateVars, flagVars, deviceVars, dagVars>>
notSelectVars == <<schedVars, poolVars, bufferVars, engineVars, queueVars, strategyVars, dispatchVars, commitVars, merkleVars, thresholdVars, inventoryVars, chooseVars, warpVars, serveVars, rotateVars, allocateVars, flagVars, deviceVars, dagVars>>
notStrategyVars == <<schedVars, poolVars, bufferVars, engineVars, queueVars, selectVars, dispatchVars, commitVars, merkleVars, thresholdVars, inventoryVars, chooseVars, warpVars, serveVars, rotateVars, allocateVars, flagVars, deviceVars, dagVars>>
notDispatchVars == <<schedVars, poolVars, bufferVars, engineVars, queueVars, selectVars, strategyVars, commitVars, merkleVars, thresholdVars, inventoryVars, chooseVars, warpVars, serveVars, rotateVars, allocateVars, flagVars, deviceVars, dagVars>>
notCommitVars == <<schedVars, poolVars, bufferVars, engineVars, queueVars, selectVars, strategyVars, dispatchVars, merkleVars, thresholdVars, inventoryVars, chooseVars, warpVars, serveVars, rotateVars, allocateVars, flagVars, deviceVars, dagVars>>
notMerkleVars == <<schedVars, poolVars, bufferVars, engineVars, queueVars, selectVars, strategyVars, dispatchVars, commitVars, thresholdVars, inventoryVars, chooseVars, warpVars, serveVars, rotateVars, allocateVars, flagVars, deviceVars, dagVars>>
notThresholdVars == <<schedVars, poolVars, bufferVars, engineVars, queueVars, selectVars, strategyVars, dispatchVars, commitVars, merkleVars, inventoryVars, chooseVars, warpVars, serveVars, rotateVars, allocateVars, flagVars, deviceVars, dagVars>>
notInventoryVars == <<schedVars, poolVars, bufferVars, engineVars, queueVars, selectVars, strategyVars, dispatchVars, commitVars, merkleVars, thresholdVars, chooseVars, warpVars, serveVars, rotateVars, allocateVars, flagVars, deviceVars, dagVars>>
\* what ReassemblyEngine::shutdown leaves alone beside the backends' fields
notEngineShutdownVars == <<schedVars, buf, created, held, owned, call, bufferVars, engineVars,
                           queueVars, selectVars, strategyVars, commitVars, merkleVars,
                           thresholdVars, inventoryVars, chooseVars, warpVars, serveVars, rotateVars, allocateVars, flagVars, deviceVars, dagVars>>
notChooseVars == <<schedVars, poolVars, bufferVars, engineVars, queueVars, selectVars, strategyVars, dispatchVars, commitVars, merkleVars, thresholdVars, inventoryVars, warpVars, serveVars, rotateVars, allocateVars, flagVars, deviceVars, dagVars>>
notWarpVars == <<schedVars, poolVars, bufferVars, engineVars, queueVars, selectVars, strategyVars, dispatchVars, commitVars, merkleVars, thresholdVars, inventoryVars, chooseVars, serveVars, rotateVars, allocateVars, flagVars, deviceVars, dagVars>>
notServeVars == <<schedVars, poolVars, bufferVars, engineVars, queueVars, selectVars, strategyVars, dispatchVars, commitVars, merkleVars, thresholdVars, inventoryVars, chooseVars, warpVars, rotateVars, allocateVars, flagVars, deviceVars, dagVars>>
notRotateVars == <<schedVars, poolVars, bufferVars, engineVars, queueVars, selectVars, strategyVars, dispatchVars, commitVars, merkleVars, thresholdVars, inventoryVars, chooseVars, warpVars, serveVars, allocateVars, flagVars, deviceVars, dagVars>>
notAllocateVars == <<schedVars, poolVars, bufferVars, engineVars, queueVars, selectVars, strategyVars, dispatchVars, commitVars, merkleVars, thresholdVars, inventoryVars, chooseVars, warpVars, serveVars, rotateVars, flagVars, deviceVars, dagVars>>
notFlagVars == <<schedVars, poolVars, bufferVars, engineVars, queueVars, selectVars, strategyVars, dispatchVars, commitVars, merkleVars, thresholdVars, inventoryVars, chooseVars, warpVars, serveVars, rotateVars, allocateVars, deviceVars, dagVars>>
notDeviceVars == <<schedVars, poolVars, bufferVars, engineVars, queueVars, selectVars, strategyVars, dispatchVars, commitVars, merkleVars, thresholdVars, inventoryVars, chooseVars, warpVars, serveVars, rotateVars, allocateVars, flagVars, dagVars>>
notDagVars == <<schedVars, poolVars, bufferVars, engineVars, queueVars, selectVars, strategyVars, dispatchVars, commitVars, merkleVars, thresholdVars, inventoryVars, chooseVars, warpVars, serveVars, rotateVars, allocateVars, flagVars, deviceVars>>
notServeDagVars == <<schedVars, poolVars, bufferVars, engineVars, queueVars, selectVars, strategyVars, dispatchVars, commitVars, merkleVars, thresholdVars, inventoryVars, chooseVars, warpVars, rotateVars, allocateVars, flagVars, deviceVars>>

\* ----------------------------------------------------------- MemoryPool
Buffers == 1..MaxBuffers
Callers == 1..NumCallers
Sizes == 1..MaxSize
NoBuffer == 0

Idle == [op |-> "idle", size |-> 0, buffer |-> NoBuffer]
NoMemory == [capacity |-> 0, size |-> 0, gpu_locked |-> FALSE]

\* MemoryPool::new
PoolInit ==
    /\ allocated = 0
    /\ free_buffers = <<>>
    /\ all_buffers = {}
    /\ buf = [b \in Buffers |-> NoMemory]
    /\ created = 0
    /\ held = [c \in Callers |-> {}]
    /\ owned = [c \in Callers |-> {}]
    /\ call = [c \in Callers |-> Idle]

\* the pool while the scheduler runs
PoolIdle == PoolInit

\* allocate: the check on the loaded counter
Exhausted(current, size, total) == current + size > total

\* MemoryBuffer::reset, then MemoryBuffer::resize(size)
Reuse(m, size) == [m EXCEPT !.gpu_locked = FALSE, !.size = size]

\* vec![0u8; capacity]
Zeros(capacity) == [i \in 1..capacity |-> 0]

\* MemoryBuffer::new(capacity)
NewBuffer(capacity) == [capacity |-> capacity, size |-> capacity, gpu_locked |-> FALSE]

\* allocate(size): allocated.load and the check
AllocLoad(c, size) ==
    /\ call[c] = Idle
    /\ call' = [call EXCEPT ![c] =
                   [op |-> IF Exhausted(allocated, size, PoolTotal) THEN "failed" ELSE "pop",
                    size |-> size, buffer |-> NoBuffer]]
    /\ UNCHANGED <<allocated, free_buffers, all_buffers, buf, created, held, owned,
                   data, notPoolVars>>

\* allocate: bail!("Memory pool exhausted"), the call returns Err
AllocFail(c) ==
    /\ call[c].op = "failed"
    /\ call' = [call EXCEPT ![c] = Idle]
    /\ UNCHANGED <<allocated, free_buffers, all_buffers, buf, created, held, owned,
                   data, notPoolVars>>

\* allocate: one turn of `while let Some(buffer) = free_buffers.pop()`; a
\* buffer that is too small is dropped, a fitting one is returned; with the
\* list empty the loop ends
AllocPop(c) ==
    /\ call[c].op = "pop"
    /\ IF free_buffers = <<>>
       THEN /\ call' = [call EXCEPT ![c].op = "new"]
            /\ UNCHANGED <<free_buffers, buf, held, owned>>
       ELSE LET b == Head(free_buffers) IN
            /\ free_buffers' = Tail(free_buffers)
            /\ IF buf[b].capacity >= call[c].size
               THEN /\ buf' = [buf EXCEPT ![b] = Reuse(@, call[c].size)]
                    /\ held' = [held EXCEPT ![c] = @ \cup {b}]
                    /\ owned' = [owned EXCEPT ![c] = @ \cup {b}]
                    /\ call' = [call EXCEPT ![c] = Idle]
               ELSE UNCHANGED <<buf, held, owned, call>>
    /\ UNCHANGED <<allocated, all_buffers, created, data, notPoolVars>>

\* allocate: Arc::new(MemoryBuffer::new(size)) and allocated.fetch_add(size)
AllocNew(c) ==
    /\ call[c].op = "new"
    /\ created < MaxBuffers
    /\ created' = created + 1
    /\ buf' = [buf EXCEPT ![created + 1] = NewBuffer(call[c].size)]
    /\ data' = [data EXCEPT ![created + 1] = Zeros(call[c].size)]
    /\ allocated' = allocated + call[c].size
    /\ call' = [call EXCEPT ![c].op = "track", ![c].buffer = created + 1]
    /\ UNCHANGED <<free_buffers, all_buffers, held, owned, notPoolVars>>

\* allocate: all_buffers.write().push(buffer.clone()), return Ok(buffer)
AllocTrack(c) ==
    /\ call[c].op = "track"
    /\ all_buffers' = all_buffers \cup {call[c].buffer}
    /\ held' = [held EXCEPT ![c] = @ \cup {call[c].buffer}]
    /\ owned' = [owned EXCEPT ![c] = @ \cup {call[c].buffer}]
    /\ call' = [call EXCEPT ![c] = Idle]
    /\ UNCHANGED <<allocated, free_buffers, buf, created, data, notPoolVars>>

\* free(buffer): free_buffers.push(buffer); the thread gives its Arc away
\* or keeps a clone of it
Free(c, b, keep) ==
    /\ call[c] = Idle
    /\ b \in held[c]
    /\ Len(free_buffers) < MaxFree
    /\ free_buffers' = Append(free_buffers, b)
    /\ held' = [held EXCEPT ![c] = IF keep THEN @ ELSE @ \ {b}]
    /\ owned' = [owned EXCEPT ![c] = @ \ {b}]
    /\ UNCHANGED <<allocated, all_buffers, buf, created, call, data, notPoolVars>>

\* clear(): entry
ClearCall(c) ==
    /\ call[c] = Idle
    /\ call' = [call EXCEPT ![c].op = "drain"]
    /\ UNCHANGED <<allocated, free_buffers, all_buffers, buf, created, held, owned,
                   data, notPoolVars>>

\* clear: one turn of `while free_buffers.pop().is_some() {}`
ClearDrain(c) ==
    /\ call[c].op = "drain"
    /\ IF free_buffers = <<>>
       THEN /\ call' = [call EXCEPT ![c].op = "forget"]
            /\ UNCHANGED free_buffers
       ELSE /\ free_buffers' = Tail(free_buffers)
            /\ UNCHANGED call
    /\ UNCHANGED <<allocated, all_buffers, buf, created, held, owned, data, notPoolVars>>

\* clear: all_buffers.write().clear()
ClearForget(c) ==
    /\ call[c].op = "forget"
    /\ all_buffers' = {}
    /\ call' = [call EXCEPT ![c].op = "reset"]
    /\ UNCHANGED <<allocated, free_buffers, buf, created, held, owned, data, notPoolVars>>

\* clear: allocated.store(0)
ClearReset(c) ==
    /\ call[c].op = "reset"
    /\ allocated' = 0
    /\ call' = [call EXCEPT ![c] = Idle]
    /\ UNCHANGED <<free_buffers, all_buffers, buf, created, held, owned, data, notPoolVars>>

PoolNext ==
    \/ \E c \in Callers, size \in Sizes : AllocLoad(c, size)
    \/ \E c \in Callers : AllocFail(c)
    \/ \E c \in Callers : AllocPop(c)
    \/ \E c \in Callers : AllocNew(c)
    \/ \E c \in Callers : AllocTrack(c)
    \/ \E c \in Callers, b \in Buffers, keep \in BOOLEAN : Free(c, b, keep)
    \/ \E c \in Callers : ClearCall(c)
    \/ \E c \in Callers : ClearDrain(c)
    \/ \E c \in Callers : ClearForget(c)
    \/ \E c \in Callers : ClearReset(c)

\* --------------------------------------------------------- MemoryBuffer
\* the byte a test writes, and the data a write is given: up to one byte
\* more than the largest capacity
SrcByte == 1
Sources == UNION {[1..n -> {SrcByte}] : n \in 0..(MaxSize + 1)}

NoWrite == [op |-> "idle", buffer |-> NoBuffer, src |-> <<>>]

\* no buffer exists and no write is in progress
BufferIdle ==
    /\ data = [b \in Buffers |-> <<>>]
    /\ bcall = [c \in Callers |-> NoWrite]

\* MemoryBuffer::new(capacity) for the first buffer, outside any pool
BufferInit ==
    /\ \E capacity \in Sizes :
          /\ buf = [b \in Buffers |-> IF b = 1 THEN NewBuffer(capacity) ELSE NoMemory]
          /\ data = [b \in Buffers |-> IF b = 1 THEN Zeros(capacity) ELSE <<>>]
    /\ created = 1
    /\ allocated = 0
    /\ free_buffers = <<>>
    /\ all_buffers = {}
    /\ held = [c \in Callers |-> {1}]
    /\ owned = [c \in Callers |-> {}]
    /\ call = [c \in Callers |-> Idle]
    /\ bcall = [c \in Callers |-> NoWrite]

\* write: `data.len() > buffer.len()`
TooLarge(src, bytes) == Len(src) > Len(bytes)

\* write: buffer[..data.len()].copy_from_slice(data)
CopyFromSlice(bytes, src) ==
    [i \in 1..Len(bytes) |-> IF i <= Len(src) THEN src[i] ELSE bytes[i]]

\* write: size.store(data.len()) leaves the size as it was
StoreSizeKeepsSize(m, src) == m

\* write: size.store(data.len())
StoreSize(m, src) == [m EXCEPT !.size = Len(src)]

\* write(src): the load of gpu_locked; bail! when it is set
WriteCheck(c, b, src) ==
    /\ bcall[c] = NoWrite
    /\ b \in held[c]
    /\ bcall' = [bcall EXCEPT ![c] =
                    [op |-> IF buf[b].gpu_locked THEN "locked" ELSE "copy",
                     buffer |-> b, src |-> src]]
    /\ UNCHANGED <<buf, data, notBufferVars>>

\* write: under the data.write() guard, the length check, the copy and the
\* store of size
WriteCopy(c) ==
    /\ bcall[c].op = "copy"
    /\ LET b == bcall[c].buffer
           src == bcall[c].src IN
       IF TooLarge(src, data[b])
       THEN /\ bcall' = [bcall EXCEPT ![c].op = "too_large"]
            /\ UNCHANGED <<buf, data>>
       ELSE /\ data' = [data EXCEPT ![b] = CopyFromSlice(@, src)]
            /\ buf' = [buf EXCEPT ![b] = StoreSize(@, src)]
            /\ bcall' = [bcall EXCEPT ![c].op = "ok"]
    /\ UNCHANGED notBufferVars

\* write: the call returns, Err after a bail!, Ok(()) otherwise
WriteReturn(c) ==
    /\ bcall[c].op \in {"locked", "too_large", "ok"}
    /\ bcall' = [bcall EXCEPT ![c] = NoWrite]
    /\ UNCHANGED <<buf, data, notBufferVars>>

\* lock_for_gpu: compare_exchange(false, true); Err when it was set
LockForGpu(c, b) ==
    /\ b \in held[c]
    /\ buf' = [buf EXCEPT ![b].gpu_locked = TRUE]
    /\ UNCHANGED <<data, bcall, notBufferVars>>

\* unlock_from_gpu: gpu_locked.store(false)
UnlockFromGpu(c, b) ==
    /\ b \in held[c]
    /\ buf' = [buf EXCEPT ![b].gpu_locked = FALSE]
    /\ UNCHANGED <<data, bcall, notBufferVars>>

BufferNext ==
    \/ \E c \in Callers, b \in Buffers, src \in Sources : WriteCheck(c, b, src)
    \/ \E c \in Callers : WriteCopy(c)
    \/ \E c \in Callers : WriteReturn(c)
    \/ \E c \in Callers, b \in Buffers : LockForGpu(c, b)
    \/ \E c \in Callers, b \in Buffers : UnlockFromGpu(c, b)

\* ----------------------------------------------------- ReassemblyEngine
NoExecute == [op |-> "idle", len |-> 0]

\* no execute call is in progress
EngineIdle == exec = [c \in Callers |-> NoExecute]

\* how the rest of execute ends once the input buffer is allocated: at the
\* buffer write, at the backend, at the ledger (execute_web3), at the proof,
\* or with a result
Outcomes == {"write", "backend", "ledger", "proof", "result"}

\* execute: enhance_computation, compile and select_backend return Err
\* (proceed = FALSE) or the call goes on to memory_pool.allocate(len), whose
\* first step is the load of the counter and the check
ExecuteCall(c, len, proceed) ==
    /\ exec[c] = NoExecute
    /\ call[c] = Idle
    /\ IF proceed
       THEN /\ exec' = [exec EXCEPT ![c] = [op |-> "allocate", len |-> len]]
            /\ call' = [call EXCEPT ![c] =
                          [op |-> IF Exhausted(allocated, len, PoolTotal)
                                  THEN "failed" ELSE "pop",
                           size |-> len, buffer |-> NoBuffer]]
       ELSE UNCHANGED <<exec, call>>
    /\ UNCHANGED <<allocated, free_buffers, all_buffers, buf, created, held, owned, data,
                   notEngineVars>>

\* execute: allocate returned Err, `?` returns it
ExecuteExhausted(c) ==
    /\ exec[c].op = "allocate"
    /\ call[c] = Idle
    /\ held[c] = {}
    /\ exec' = [exec EXCEPT ![c] = NoExecute]
    /\ UNCHANGED <<allocated, free_buffers, all_buffers, buf, created, held, owned, data,
                   call, notEngineVars>>

\* execute: allocate returned input_buffer; input_buffer.write(input), then
\* backend.execute or execute_web3, generate_proof, and the return. The
\* buffer is moved into the backend or dropped at the end of the call; no
\* path calls memory_pool.free
ExecuteRun(c, outcome) ==
    /\ exec[c].op = "allocate"
    /\ call[c] = Idle
    /\ held[c] /= {}
    /\ LET b == CHOOSE x \in held[c] : TRUE
           src == [i \in 1..exec[c].len |-> SrcByte] IN
       IF buf[b].gpu_locked \/ TooLarge(src, data[b])
       THEN UNCHANGED <<buf, data>>
       ELSE /\ data' = [data EXCEPT ![b] = CopyFromSlice(@, src)]
            /\ buf' = [buf EXCEPT ![b] = StoreSize(@, src)]
    /\ held' = [held EXCEPT ![c] = {}]
    /\ exec' = [exec EXCEPT ![c] = NoExecute]
    /\ UNCHANGED <<allocated, free_buffers, all_buffers, created, owned, call,
                   notEngineVars>>

EngineNext ==
    \/ \E c \in Callers, len \in Sizes, proceed \in BOOLEAN : ExecuteCall(c, len, proceed)
    \/ \E c \in Callers : AllocFail(c)
    \/ \E c \in Callers : AllocPop(c)
    \/ \E c \in Callers : AllocNew(c)
    \/ \E c \in Callers : AllocTrack(c)
    \/ \E c \in Callers : ExecuteExhausted(c)
    \/ \E c \in Callers, outcome \in Outcomes : ExecuteRun(c, outcome)

\* ------------------------------------------------------- backend selection
\* backends::BackendType, what ComputeBackend::backend_type returns
BackendTypes == {"Cpu", "Cuda", "Rocm", "Metal", "Vulkan", "OpenCL", "Web3", "Quantum"}

Policies == {"RoundRobin", "LeastLoaded", "Fastest", "Adaptive", "CostOptimized"}

\* a ComputeBackend as selection sees it: backend_type() and is_available()
Backend == [type : BackendTypes, available : BOOLEAN]

BackendLists == UNION {[1..n -> Backend] : n \in 1..MaxBackends}

\* Computation::backend_hints
HintLists == UNION {[1..n -> BackendTypes] : n \in 0..MaxHints}

NotCalled == [called |-> FALSE, index |-> 0]

\* evaluate_backend: SchedulingPolicy::Fastest
FastestScore(type) ==
    CASE type = "Cuda" -> 10
      [] type = "Rocm" -> 9
      [] type = "Metal" -> 8
      [] type = "Vulkan" -> 7
      [] type = "OpenCL" -> 6
      [] type = "Web3" -> 5
      [] type = "Cpu" -> 3
      [] type = "Quantum" -> 15

\* evaluate_backend: SchedulingPolicy::CostOptimized
CostScore(type) ==
    CASE type = "Cpu" -> 10
      [] type = "Web3" -> 1
      [] OTHER -> 5

\* AdaptiveScheduler::adaptive_score
AdaptiveScore(type, isLarge) ==
    IF isLarge
    THEN IF type \in {"Cuda", "Rocm", "Metal"} THEN 10 ELSE 3
    ELSE IF type = "Cpu" THEN 8 ELSE 5

\* evaluate_backend: the score of an available backend under a policy
PolicyScore(pol, type, isLarge) ==
    CASE pol = "RoundRobin" -> 1
      [] pol = "LeastLoaded" -> 1
      [] pol = "Fastest" -> FastestScore(type)
      [] pol = "Adaptive" -> AdaptiveScore(type, isLarge)
      [] pol = "CostOptimized" -> CostScore(type)

\* AdaptiveScheduler::evaluate_backend
EvaluateBackend(pol, b, isLarge) ==
    IF ~b.available THEN 0 ELSE PolicyScore(pol, b.type, isLarge)

\* a comparison that also puts a backend before one of equal score
ScoreBeforeOrEqual(x, y) == x >= y

\* sort_by(|a, b| b.1.partial_cmp(&a.1)): a score sorts before a lower one
ScoreBefore(x, y) == x > y

\* the stable sort: the places of `scores`, taken in order, each inserted
\* before the first place already sorted that it sorts before
RECURSIVE InsertSorted(_, _, _)
InsertSorted(sorted, i, scores) ==
    IF sorted = <<>> THEN <<i>>
    ELSE IF ScoreBefore(scores[i], scores[Head(sorted)]) THEN <<i>> \o sorted
    ELSE <<Head(sorted)>> \o InsertSorted(Tail(sorted), i, scores)

RECURSIVE SortByScore(_, _)
SortByScore(scores, n) ==
    IF n = 0 THEN <<>> ELSE InsertSorted(SortByScore(scores, n - 1), n, scores)

\* ReassemblyEngine::select_backend: the index of the backend, 0 for the
\* error "No suitable backend found"
SelectIndex(bs, pol, isLarge) ==
    LET scores == [i \in 1..Len(bs) |-> EvaluateBackend(pol, bs[i], isLarge)]
        sorted == SortByScore(scores, Len(bs)) IN
    IF sorted = <<>> THEN 0 ELSE Head(sorted)

\* no selection is under test
SelectIdle ==
    /\ registered = <<>>
    /\ policy = "Adaptive"
    /\ large = FALSE
    /\ hints = <<>>
    /\ selected = NotCalled

\* an engine with its backends and policy, and a computation
SelectInit ==
    /\ registered \in BackendLists
    /\ policy \in Policies
    /\ large \in BOOLEAN
    /\ hints \in HintLists
    /\ selected = NotCalled

\* self.select_backend(&computation)
SelectCall ==
    /\ ~selected.called
    /\ selected' = [called |-> TRUE, index |-> SelectIndex(registered, policy, large)]
    /\ UNCHANGED <<registered, policy, large, hints, notSelectVars>>

SelectNext == SelectCall

\* ------------------------------------------------------- PriorityQueues
EmptyQueues == [critical |-> <<>>, high |-> <<>>, normal |-> <<>>, low |-> <<>>]

Band(p) ==
    CASE p = Critical -> "critical"
      [] p = High -> "high"
      [] p = Normal -> "normal"
      [] OTHER -> "low"

\* push at the front of the band instead of the back
PushFront(q, t, p) == [q EXCEPT ![Band(p)] = <<t>> \o @]

\* PriorityQueues::push
Push(q, t, p) == [q EXCEPT ![Band(p)] = Append(@, t)]

\* PriorityQueues::pop: the task, NoTask for Option::None
PopTask(q) ==
    IF q.critical /= <<>> THEN Head(q.critical)
    ELSE IF q.high /= <<>> THEN Head(q.high)
    ELSE IF q.normal /= <<>> THEN Head(q.normal)
    ELSE IF q.low /= <<>> THEN Head(q.low)
    ELSE NoTask

\* PriorityQueues::pop: the queues it leaves
PopRest(q) ==
    IF q.critical /= <<>> THEN [q EXCEPT !.critical = Tail(@)]
    ELSE IF q.high /= <<>> THEN [q EXCEPT !.high = Tail(@)]
    ELSE IF q.normal /= <<>> THEN [q EXCEPT !.normal = Tail(@)]
    ELSE IF q.low /= <<>> THEN [q EXCEPT !.low = Tail(@)]
    ELSE q

SeqSet(s) == {s[i] : i \in 1..Len(s)}
Queued(q) == SeqSet(q.critical) \cup SeqSet(q.high) \cup SeqSet(q.normal) \cup SeqSet(q.low)

\* PriorityQueues::is_empty
IsEmpty(q) == q.critical = <<>> /\ q.high = <<>> /\ q.normal = <<>> /\ q.low = <<>>

\* no PriorityQueues is driven directly
QueueIdle == pushed = <<>> /\ popped = NoTask

\* queues.push(task): the tasks are numbered in push order
PushCall(p) ==
    /\ Len(pushed) < MaxPushes
    /\ queues' = Push(queues, Len(pushed) + 1, p)
    /\ pushed' = Append(pushed, p)
    /\ UNCHANGED <<popped, notQueueVars>>

\* queues.pop()
PopCall ==
    /\ popped' = PopTask(queues)
    /\ queues' = PopRest(queues)
    /\ UNCHANGED <<pushed, notQueueVars>>

QueueNext ==
    \/ \E p \in Priority : PushCall(p)
    \/ PopCall

\* ------------------------------------------- TaskScheduler::select_backend
Runs == 1..NumRuns

BackendNames == {"cpu", "cuda", "web3"}

\* the orders in which a HashMap holding the keys S can yield them
KeyOrders(S) ==
    {q \in [1..Cardinality(S) -> S] : \A i, j \in 1..Cardinality(S) : q[i] = q[j] => i = j}

NotSelected == [called |-> FALSE, hint |-> NoBackend, backend |-> NoBackend]

\* self.backends.keys().next().cloned()
KeysNext(order) == IF order = <<>> THEN NoBackend ELSE Head(order)

\* TaskScheduler::select_backend: every built-in strategy takes the first key
SelectBackendIn(order, hint) ==
    IF hint /= NoBackend /\ \E i \in 1..Len(order) : order[i] = hint
    THEN hint
    ELSE KeysNext(order)

StrategyIdle ==
    /\ key_order = [r \in Runs |-> <<>>]
    /\ chosen = [r \in Runs |-> NotSelected]

\* TaskScheduler::new for each run, over the same backends
StrategyInit ==
    /\ \E S \in SUBSET BackendNames : key_order \in [Runs -> KeyOrders(S)]
    /\ chosen = [r \in Runs |-> NotSelected]

\* self.select_backend(&task) in scheduler r
StrategySelect(r, hint) ==
    /\ ~chosen[r].called
    /\ chosen' = [chosen EXCEPT ![r] = [called |-> TRUE, hint |-> hint,
                                        backend |-> SelectBackendIn(key_order[r], hint)]]
    /\ UNCHANGED <<key_order, notStrategyVars>>

StrategyNext ==
    \E r \in Runs, hint \in BackendNames \cup {NoBackend} : StrategySelect(r, hint)

\* ------------------------------------------- RoundRobin: repeated selection
RotateIdle ==
    /\ rr_registered = <<>>
    /\ rr_keys = <<>>
    /\ engine_picks = <<>>
    /\ scheduler_picks = <<>>

\* an engine and a TaskScheduler built over the same backends, both with
\* the RoundRobin policy
RotateInit ==
    /\ rr_registered \in BackendLists
    /\ rr_keys \in KeyOrders({i \in DOMAIN rr_registered : rr_registered[i].available})
    /\ engine_picks = <<>>
    /\ scheduler_picks = <<>>

\* ReassemblyEngine::select_backend under SchedulingPolicy::RoundRobin, for
\* one more computation without hints: the index of the backend
EngineSelect ==
    /\ Len(engine_picks) < MaxPicks
    /\ engine_picks' = Append(engine_picks, SelectIndex(rr_registered, "RoundRobin", FALSE))
    /\ UNCHANGED <<rr_registered, rr_keys, scheduler_picks, notRotateVars>>

\* TaskScheduler::select_backend under SchedulingStrategy::RoundRobin, for
\* one more task without a hint: the key of the backend
SchedulerSelect ==
    /\ Len(scheduler_picks) < MaxPicks
    /\ scheduler_picks' = Append(scheduler_picks, KeysNext(rr_keys))
    /\ UNCHANGED <<rr_registered, rr_keys, engine_picks, notRotateVars>>

RotateNext == EngineSelect \/ SchedulerSelect

\* ------------------------------------- backends: shutdown and dispatch
\* the backends ReassemblyEngine::new pushes when a feature or a flag
\* allows; Cuda stands for the feature-gated GPU backends (cuda, rocm,
\* metal, vulkan), whose execute and shutdown have one shape
OptionalBackends == {"Cuda", "Web3Gpu"}

\* every backend ReassemblyEngine::new can register
EngineTypes == {"Cpu", "Web3"} \cup OptionalBackends

NoCall == [caller |-> "none", backend |-> "Cpu", closed |-> FALSE, generic |-> FALSE,
           ran |-> FALSE, submitted |-> FALSE, waited |-> FALSE, result |-> "none"]

\* a dispatch that hands every backend's job to backend.execute
DispatchAlwaysGeneric(type) == "generic"

\* ReassemblyEngine::execute: match backend.backend_type()
DispatchRoute(type) == IF type = "Web3" THEN "ledger" ELSE "generic"

\* ComputeBackend::execute of backend b: Web3Backend bails, every other
\* backend runs the module, which returns Ok or Err
GenericExecute(caller, b, ok) ==
    [caller |-> caller, backend |-> b, closed |-> b \in shut, generic |-> TRUE,
     ran |-> b /= "Web3", submitted |-> FALSE, waited |-> FALSE,
     result |-> IF b /= "Web3" /\ ok THEN "ok" ELSE "error"]

\* ReassemblyEngine::execute_web3: the provider, submit_computation, then
\* wait_for_result, each ending the call on Err
ExecuteWeb3(submitOk, waitOk) ==
    [caller |-> "engine", backend |-> "Web3", closed |-> "Web3" \in shut,
     generic |-> FALSE, ran |-> FALSE,
     submitted |-> web3_provider,
     waited |-> web3_provider /\ submitOk,
     result |-> IF web3_provider /\ submitOk /\ waitOk THEN "ok" ELSE "error"]

DispatchIdle ==
    /\ engine_backends = {"Cpu"}
    /\ web3_provider = FALSE
    /\ shut = {}
    /\ last = NoCall

\* ReassemblyEngine::new: the CPU backend, the optional ones, and the Web3
\* backend exactly when the provider was initialized
DispatchInit ==
    /\ web3_provider \in BOOLEAN
    /\ \E opt \in SUBSET OptionalBackends :
         engine_backends = {"Cpu"} \cup opt \cup (IF web3_provider THEN {"Web3"} ELSE {})
    /\ shut = {}
    /\ last = NoCall

\* backend.shutdown() on one backend: Ok(()), no field is written
BackendShutdown(b) ==
    /\ b \in engine_backends
    /\ shut' = shut \cup {b}
    /\ UNCHANGED <<engine_backends, web3_provider, last, notDispatchVars>>

\* ReassemblyEngine::shutdown: every backend's shutdown, then
\* memory_pool.clear(), here on a pool nothing was allocated from
EngineShutdown ==
    /\ shut' = shut \cup engine_backends
    /\ allocated' = 0
    /\ free_buffers' = <<>>
    /\ all_buffers' = {}
    /\ UNCHANGED <<engine_backends, web3_provider, last, notEngineShutdownVars>>

\* backend.execute(module, input) called on a backend directly
BackendExecute(b, ok) ==
    /\ b \in engine_backends
    /\ last' = GenericExecute("direct", b, ok)
    /\ UNCHANGED <<engine_backends, web3_provider, shut, notDispatchVars>>

\* ReassemblyEngine::execute from the match on the selected backend's type
\* on: execute_web3 or backend.execute
EngineExecute(sel, ok, submitOk, waitOk) ==
    /\ sel \in engine_backends
    /\ last' = IF DispatchRoute(sel) = "ledger"
               THEN ExecuteWeb3(submitOk, waitOk)
               ELSE GenericExecute("engine", sel, ok)
    /\ UNCHANGED <<engine_backends, web3_provider, shut, notDispatchVars>>

DispatchNext ==
    \/ \E b \in EngineTypes : BackendShutdown(b)
    \/ EngineShutdown
    \/ \E b \in EngineTypes, ok \in BOOLEAN : BackendExecute(b, ok)
    \/ \E sel \in EngineTypes, ok, submitOk, waitOk \in BOOLEAN :
         EngineExecute(sel, ok, submitOk, waitOk)

\* --------------------------------------------- VerificationEngine: commitments
ByteValues == {0, 1}

\* the byte strings of length up to MaxData
DataStrings == UNION {[1..n -> ByteValues] : n \in 0..MaxData}

\* SystemTime::now() at the call
Times == {0, 1}

\* the engine's keypair: the public key names it
EngineKey == "engine"

\* Sha3_256 and BLAKE3, injective on the strings of the model: the digest
\* is the input under the name of the function
Sha3(bytes) == <<"sha3", bytes>>
Blake3(bytes) == <<"blake3", bytes>>

\* keypair.sign(message) and public_key.verify(message, signature)
Sign(key, message) == [signer |-> key, message |-> message]
VerifySignature(key, message, signature) == signature = Sign(key, message)

NoCommitment == [sha3_256 |-> <<>>, blake3 |-> <<>>, signature |-> <<>>,
                 public_key |-> "", timestamp |-> 0]

\* VerificationEngine::create_commitment
CreateCommitment(kind, bytes, now) ==
    [sha3_256 |-> Sha3(bytes),
     blake3 |-> Blake3(bytes),
     signature |-> IF kind = "signed"
                   THEN Sign(EngineKey, Sha3(bytes) \o Blake3(bytes)) ELSE <<>>,
     public_key |-> IF kind = "signed" THEN EngineKey ELSE "",
     timestamp |-> now]

\* a verification that looks at the signature alone
VerifySignatureOnly(kind, c, bytes) ==
    kind = "signed" => VerifySignature(c.public_key, c.sha3_256 \o c.blake3, c.signature)

\* VerificationEngine::verify_commitment
VerifyCommitment(kind, c, bytes) ==
    IF Sha3(bytes) /= c.sha3_256 THEN FALSE
    ELSE IF kind = "simple" THEN Blake3(bytes) = c.blake3
    ELSE IF Blake3(bytes) /= c.blake3 THEN FALSE
    ELSE VerifySignature(c.public_key, c.sha3_256 \o c.blake3, c.signature)

CommitIdle ==
    /\ engine_kind = "simple"
    /\ cdata = <<>>
    /\ commitment = NoCommitment
    /\ vdata = <<>>
    /\ verdict = "none"

\* VerificationEngine::new, of either module
CommitInit ==
    /\ engine_kind \in {"signed", "simple"}
    /\ cdata = <<>>
    /\ commitment = NoCommitment
    /\ vdata = <<>>
    /\ verdict = "none"

\* let c = engine.create_commitment(bytes)
CreateCall(bytes, now) ==
    /\ commitment = NoCommitment
    /\ cdata' = bytes
    /\ commitment' = CreateCommitment(engine_kind, bytes, now)
    /\ UNCHANGED <<engine_kind, vdata, verdict, notCommitVars>>

\* engine.verify_commitment(&c, bytes)
VerifyCall(bytes) ==
    /\ commitment /= NoCommitment
    /\ vdata' = bytes
    /\ verdict' = IF VerifyCommitment(engine_kind, commitment, bytes) THEN "true" ELSE "false"
    /\ UNCHANGED <<engine_kind, cdata, commitment, notCommitVars>>

CommitNext ==
    \/ \E bytes \in DataStrings, now \in Times : CreateCall(bytes, now)
    \/ \E bytes \in DataStrings : VerifyCall(bytes)

\* ------------------------------------------------------------- MerkleTree
\* the data of a leaf
LeafData == {0, 1}

\* blake3 digests, injective on the model's inputs, as sequences of numbers:
\* vec![0u8; 32], the digest of leaf data, and the digest of two digests fed
\* to one hasher
ZeroHash == <<0>>
LeafHash(d) == <<1, d>>
NodeHash(left, right) == <<2, Len(left)>> \o left \o right

NoRoot == <<>>
NoProof == [some |-> FALSE, leaf_index |-> 0, leaf_hash |-> <<>>, proof |-> <<>>,
            root |-> NoRoot]

\* build: one pass of `for chunk in current_level.chunks(2)`, the last node
\* of an odd level hashed with itself
RECURSIVE NextLevel(_)
NextLevel(level) ==
    IF level = <<>> THEN <<>>
    ELSE IF Len(level) = 1 THEN <<NodeHash(level[1], level[1])>>
    ELSE <<NodeHash(level[1], level[2])>> \o NextLevel(Tail(Tail(level)))

\* build: the hashes pushed on self.nodes, level after level
RECURSIVE BuildNodes(_)
BuildNodes(level) ==
    IF Len(level) <= 1 THEN <<>>
    ELSE NextLevel(level) \o BuildNodes(NextLevel(level))

\* build: current_level.first() once the loop has ended
RECURSIVE BuildRoot(_)
BuildRoot(level) ==
    IF Len(level) <= 1 THEN level[1] ELSE BuildRoot(NextLevel(level))

\* prove: the ProofNode pushed for a sibling, its hash a placeholder
ProofNode(sibling, is_left) == [hash |-> ZeroHash, is_left |-> is_left]

\* prove: the `while level_size > 1` loop over the 0-based current_index
RECURSIVE ProofPath(_, _, _)
ProofPath(level, current_index, level_size) ==
    IF level_size <= 1 THEN <<>>
    ELSE LET sibling_index == IF current_index % 2 = 0
                              THEN current_index + 1 ELSE current_index - 1
             rest == ProofPath(NextLevel(level), current_index \div 2,
                               (level_size + 1) \div 2) IN
         IF sibling_index < level_size
         THEN <<ProofNode(level[sibling_index + 1], current_index % 2 = 1)>> \o rest
         ELSE rest

\* MerkleTree::prove(index)
Prove(index) ==
    IF index >= Len(leaves) \/ root = NoRoot THEN NoProof
    ELSE [some |-> TRUE, leaf_index |-> index, leaf_hash |-> leaves[index + 1],
          proof |-> ProofPath(leaves, index, Len(leaves)), root |-> root]

\* verify_proof: the fold of the leaf hash with the proof's nodes
RECURSIVE FoldProof(_, _)
FoldProof(current_hash, path) ==
    IF path = <<>> THEN current_hash
    ELSE FoldProof(IF Head(path).is_left
                   THEN NodeHash(Head(path).hash, current_hash)
                   ELSE NodeHash(current_hash, Head(path).hash),
                   Tail(path))

\* MerkleTree::verify_proof
VerifyProof(p) == FoldProof(p.leaf_hash, p.proof) = p.root

\* MerkleTree::new
MerkleInit ==
    /\ leaves = <<>>
    /\ nodes = <<>>
    /\ root = NoRoot
    /\ proof = NoProof
    /\ verified = "none"

MerkleIdle == MerkleInit

\* tree.add_leaf(data)
AddLeaf(d) ==
    /\ Len(leaves) < MaxLeaves
    /\ leaves' = Append(leaves, LeafHash(d))
    /\ root' = NoRoot
    /\ UNCHANGED <<nodes, proof, verified, notMerkleVars>>

\* tree.build()
Build ==
    /\ IF leaves = <<>>
       THEN UNCHANGED <<nodes, root>>
       ELSE /\ nodes' = BuildNodes(leaves)
            /\ root' = BuildRoot(leaves)
    /\ UNCHANGED <<leaves, proof, verified, notMerkleVars>>

\* let proof = tree.prove(index)
ProveCall(index) ==
    /\ proof' = Prove(index)
    /\ UNCHANGED <<leaves, nodes, root, verified, notMerkleVars>>

\* MerkleTree::verify_proof(&proof) on the proof prove returned
VerifyProofCall ==
    /\ proof.some
    /\ verified' = IF VerifyProof(proof) THEN "true" ELSE "false"
    /\ UNCHANGED <<leaves, nodes, root, proof, notMerkleVars>>

MerkleNext ==
    \/ \E d \in LeafData : AddLeaf(d)
    \/ Build
    \/ \E index \in 0..MaxLeaves : ProveCall(index)
    \/ VerifyProofCall

\* ----------------------------------------------------- ThresholdSignature
\* ThresholdSignature::can_reconstruct
CanReconstruct == Len(shares) >= threshold

ThresholdIdle ==
    /\ threshold = 0
    /\ participants = 0
    /\ shares = <<>>

\* ThresholdSignature::new(threshold, participants), threshold <= participants
ThresholdInit ==
    /\ participants \in 1..MaxParticipants
    /\ threshold \in 0..participants
    /\ shares = <<>>

\* add_share(share): kept when share.index < participants
AddShare(index) ==
    /\ Len(shares) < MaxShares
    /\ shares' = IF index < participants THEN Append(shares, index) ELSE shares
    /\ UNCHANGED <<threshold, participants, notThresholdVars>>

ThresholdNext == \E index \in 0..MaxParticipants : AddShare(index)

\* ------------------------------------------- Web3GpuAggregator: inventory
Providers == 1..NumProviders
Refreshers == 1..NumRefreshers

\* GpuSpecs, by the two fields the sort reads
GpuSpecs == {[tflops |-> 1, price_per_hour |-> 2],
             [tflops |-> 1, price_per_hour |-> 1],
             [tflops |-> 2, price_per_hour |-> 1]}

\* what provider.list_available_gpus() returns with Ok
Listings == UNION {[1..n -> GpuSpecs] : n \in 0..MaxListing}

NoRefresh == [asked |-> 0, all_gpus |-> <<>>, failed |-> 0]

\* a comparison that puts the less efficient GPU first
LessEfficient(a, b) == a.tflops * b.price_per_hour < b.tflops * a.price_per_hour

\* the sort's comparison: a goes before b when a.tflops / a.price_per_hour
\* is the greater quotient (prices are positive)
MoreEfficient(a, b) == a.tflops * b.price_per_hour > b.tflops * a.price_per_hour

\* all_gpus.sort_by(..), a stable sort: each GPU, in order, goes before the
\* first GPU already sorted that it is more efficient than
RECURSIVE InsertGpu(_, _)
InsertGpu(sorted, g) ==
    IF sorted = <<>> THEN <<g>>
    ELSE IF MoreEfficient(g, Head(sorted)) THEN <<g>> \o sorted
    ELSE <<Head(sorted)>> \o InsertGpu(Tail(sorted), g)

RECURSIVE SortByEfficiency(_)
SortByEfficiency(gpus) ==
    IF gpus = <<>> THEN <<>>
    ELSE InsertGpu(SortByEfficiency(SubSeq(gpus, 1, Len(gpus) - 1)), gpus[Len(gpus)])

\* Web3GpuAggregator before new's first refresh_inventory
InventoryInit ==
    /\ gpu_inventory = <<>>
    /\ refresh = [r \in Refreshers |-> NoRefresh]
    /\ seen = <<>>

InventoryIdle == InventoryInit

\* refresh_inventory: one turn of `for provider in &self.providers`:
\* list_available_gpus().await, extend on Ok, a warning on Err
ListProvider(r, ok, gpus) ==
    /\ refresh[r].asked < NumProviders
    /\ refresh' = [refresh EXCEPT ![r] =
                     [asked |-> @.asked + 1,
                      all_gpus |-> IF ok THEN @.all_gpus \o gpus ELSE @.all_gpus,
                      failed |-> IF ok THEN @.failed ELSE @.failed + 1]]
    /\ UNCHANGED <<gpu_inventory, seen, notInventoryVars>>

\* refresh_inventory: the sort, then under the write lock *inventory =
\* all_gpus, and the return
Publish(r) ==
    /\ refresh[r].asked = NumProviders
    /\ gpu_inventory' = SortByEfficiency(refresh[r].all_gpus)
    /\ refresh' = [refresh EXCEPT ![r] = NoRefresh]
    /\ UNCHANGED <<seen, notInventoryVars>>

\* select_gpu: self.gpu_inventory.read().await; the filter and the choice
\* work on the Vec behind that guard
SelectGpu ==
    /\ seen' = gpu_inventory
    /\ UNCHANGED <<gpu_inventory, refresh, notInventoryVars>>

InventoryNext ==
    \/ \E r \in Refreshers, ok \in BOOLEAN, gpus \in Listings : ListProvider(r, ok, gpus)
    \/ \E r \in Refreshers : Publish(r)
    \/ SelectGpu

\* ------------------------------------------ Web3GpuAggregator: select_gpu
ConsciousnessLevels == {"Alpha", "Beta", "Gamma", "Delta", "Omega"}

\* GpuSpecs by every field select_gpu reads; prices are positive, as every
\* provider lists them. The first three are tflops 80/20/50 at prices
\* 0.40/0.10/0.20, in units of 10 TFLOPS and 0.10 USD.
GpuA == [tflops |-> 8, price_per_hour |-> 4, vram_gb |-> 2, latency_ms |-> 1,
         provider |-> "IoNet", available |-> TRUE]
GpuB == [tflops |-> 2, price_per_hour |-> 1, vram_gb |-> 1, latency_ms |-> 2,
         provider |-> "Akash", available |-> TRUE]
GpuC == [tflops |-> 5, price_per_hour |-> 2, vram_gb |-> 1, latency_ms |-> 3,
         provider |-> "IoNet", available |-> TRUE]
GpuD == [tflops |-> 9, price_per_hour |-> 1, vram_gb |-> 3, latency_ms |-> 1,
         provider |-> "Akash", available |-> FALSE]
GpuE == [tflops |-> 5, price_per_hour |-> 2, vram_gb |-> 2, latency_ms |-> 2,
         provider |-> "Akash", available |-> TRUE]

GpuCatalogue == {GpuA, GpuB, GpuC, GpuD, GpuE}

\* GpuRequirements: the values each field takes
RequirementChoices ==
    {<<"min_vram_gb", 0>>, <<"min_vram_gb", 2>>,
     <<"min_tflops", 0>>, <<"min_tflops", 5>>,
     <<"max_price_per_hour", 2>>, <<"max_price_per_hour", 9>>,
     <<"max_latency_ms", 1>>, <<"max_latency_ms", 9>>,
     <<"preferred_providers", {}>>, <<"preferred_providers", {"IoNet"}>>}
    \cup {<<"consciousness_level", level>> : level \in ConsciousnessLevels}

NoFilters(level) ==
    [min_vram_gb |-> 0, min_tflops |-> 0, max_price_per_hour |-> 9,
     max_latency_ms |-> 9, preferred_providers |-> {},
     consciousness_level |-> level]

NoOutcome == [called |-> FALSE, ok |-> FALSE, gpu |-> GpuD]

\* a filter that does not read gpu.available
MeetsIgnoringAvailable(gpu, req) ==
    /\ gpu.vram_gb >= req.min_vram_gb
    /\ gpu.tflops >= req.min_tflops
    /\ gpu.price_per_hour <= req.max_price_per_hour
    /\ gpu.latency_ms <= req.max_latency_ms
    /\ (req.preferred_providers = {} \/ gpu.provider \in req.preferred_providers)

\* select_gpu: the closure given to filter
Meets(gpu, req) ==
    /\ gpu.available
    /\ gpu.vram_gb >= req.min_vram_gb
    /\ gpu.tflops >= req.min_tflops
    /\ gpu.price_per_hour <= req.max_price_per_hour
    /\ gpu.latency_ms <= req.max_latency_ms
    /\ (req.preferred_providers = {} \/ gpu.provider \in req.preferred_providers)

\* select_gpu: suitable_gpus, in inventory order
RECURSIVE SuitableGpus(_, _)
SuitableGpus(inv, req) ==
    IF inv = <<>> THEN <<>>
    ELSE IF Meets(Head(inv), req)
         THEN <<Head(inv)>> \o SuitableGpus(Tail(inv), req)
         ELSE SuitableGpus(Tail(inv), req)

\* the comparison each arm of the match hands to min_by / max_by: a is
\* Ordering::Greater than b (quotients compared by cross-multiplication)
GreaterBy(level, a, b) ==
    CASE level = "Alpha" -> a.price_per_hour > b.price_per_hour
      [] level = "Beta"  -> a.tflops * b.price_per_hour > b.tflops * a.price_per_hour
      [] level = "Gamma" -> a.latency_ms > b.latency_ms
      [] level = "Delta" -> a.tflops > b.tflops
      [] level = "Omega" -> a.tflops * a.vram_gb > b.tflops * b.vram_gb

\* Alpha and Gamma take a minimum, the other arms a maximum
TakesMin(level) == level \in {"Alpha", "Gamma"}

\* Iterator::min_by keeps the earlier element unless it is Greater;
\* Iterator::max_by keeps the earlier element only when it is Greater
RECURSIVE Fold(_, _, _)
Fold(level, x, rest) ==
    IF rest = <<>> THEN x
    ELSE LET y == Head(rest)
             keep == IF TakesMin(level) THEN ~GreaterBy(level, x, y)
                                        ELSE GreaterBy(level, x, y)
         IN Fold(level, IF keep THEN x ELSE y, Tail(rest))

\* select_gpu's return value
SelectGpuResult(inv, req) ==
    LET suitable_gpus == SuitableGpus(inv, req)
    IN IF suitable_gpus = <<>> THEN [called |-> TRUE, ok |-> FALSE, gpu |-> GpuD]
       ELSE [called |-> TRUE, ok |-> TRUE,
             gpu |-> Fold(req.consciousness_level, Head(suitable_gpus),
                          Tail(suitable_gpus))]

ChooseInit ==
    /\ inventory = <<>>
    /\ requirements = NoFilters("Alpha")
    /\ gpu_choice = NoOutcome

ChooseIdle == ChooseInit

\* refresh_inventory publishing one more listing: the inventory stays
\* sorted by efficiency
Listed(g) ==
    /\ Len(inventory) < MaxInventory
    /\ inventory' = SortByEfficiency(Append(inventory, g))
    /\ UNCHANGED <<requirements, gpu_choice, notChooseVars>>

\* the caller sets one field of the GpuRequirements of its next call
Require(field, value) ==
    /\ <<field, value>> \in RequirementChoices
    /\ requirements' = [requirements EXCEPT ![field] = value]
    /\ UNCHANGED <<inventory, gpu_choice, notChooseVars>>

\* select_gpu(&requirements)
SelectGpuCall ==
    /\ gpu_choice' = SelectGpuResult(inventory, requirements)
    /\ UNCHANGED <<inventory, requirements, notChooseVars>>

ChooseNext ==
    \/ \E g \in GpuCatalogue : Listed(g)
    \/ \E choice \in RequirementChoices : Require(choice[1], choice[2])
    \/ SelectGpuCall

\* ---------------------------------------- WarpSpeedProcessor and its bridge
\* ConsciousnessLevel as u8
LevelRank(l) ==
    CASE l = "Alpha" -> 0 [] l = "Beta" -> 1 [] l = "Gamma" -> 2
      [] l = "Delta" -> 3 [] l = "Omega" -> 4

\* the bytes a computation is made of: two neighbours and the wrapping one
WarpBytes == {0, 1, 255}

Computations == UNION {[1..n -> WarpBytes] : n \in 0..MaxComputation}

NoEnhance == [busy |-> FALSE, input |-> <<>>]
NoEnhanced == [called |-> FALSE, input |-> <<>>, output |-> <<>>]

\* a ^ b on u8
RECURSIVE Xor(_, _)
Xor(a, b) ==
    IF a = 0 THEN b
    ELSE IF b = 0 THEN a
    ELSE 2 * Xor(a \div 2, b \div 2) + (((a % 2) + (b % 2)) % 2)

\* analyze_complexity: (len as f64).log2() / 10.0, in units of 1e-5; the
\* logarithm of 0 is -inf
SizeFactor(len) ==
    CASE len = 0 -> -10000000
      [] len = 1 -> 0
      [] len = 2 -> 10000
      [] len = 3 -> 15850
      [] len = 4 -> 20000
      [] len = 5 -> 23219

\* calculate_entropy: one term -p * log2(p) / 8 for p = count / len, in
\* units of 1e-5
EntropyTerm(count, len) ==
    IF count = len THEN 0
    ELSE CASE len = 2 -> 6250
           [] len = 3 -> IF count = 1 THEN 6604 ELSE 4875
           [] len = 4 -> IF count = 3 THEN 3891 ELSE 6250
           [] len = 5 -> CASE count = 1 -> 5805 [] count = 2 -> 6610
                           [] count = 3 -> 5527 [] count = 4 -> 3219

RECURSIVE SumTerms(_, _)
SumTerms(bs, bytes) ==
    IF bs = {} THEN 0
    ELSE LET b == CHOOSE x \in bs : TRUE
             count == Cardinality({i \in DOMAIN bytes : bytes[i] = b})
         IN (IF count > 0 THEN EntropyTerm(count, Len(bytes)) ELSE 0)
            + SumTerms(bs \ {b}, bytes)

\* calculate_entropy
CalculateEntropy(bytes) == SumTerms(WarpBytes, bytes)

\* analyze_complexity
AnalyzeComplexity(bytes) ==
    LET c == SizeFactor(Len(bytes)) + CalculateEntropy(bytes)
    IN IF c < 100000 THEN c ELSE 100000

\* select_consciousness_level, thresholds 0.9, 0.7, 0.5, 0.3
SelectConsciousnessLevel(complexity) ==
    IF complexity >= 90000 THEN "Omega"
    ELSE IF complexity >= 70000 THEN "Delta"
    ELSE IF complexity >= 50000 THEN "Gamma"
    ELSE IF complexity >= 30000 THEN "Beta"
    ELSE "Alpha"

\* recursive_transform
RECURSIVE RecursiveTransform(_, _)
RecursiveTransform(bytes, depth) ==
    LET mid == Len(bytes) \div 2
    IN IF depth = 0 \/ bytes = <<>> \/ mid = 0 THEN bytes
       ELSE LET left == RecursiveTransform(SubSeq(bytes, 1, mid), depth - 1)
                right == RecursiveTransform(SubSeq(bytes, mid + 1, Len(bytes)), depth - 1)
            IN [i \in 1..mid |-> Xor(left[i], right[i])] \o right

\* ((i as f64) * golden_ratio) as u8
Transcendent(i) == ((i * 1618034) \div 1000000) % 256

\* apply_consciousness_transform
ApplyConsciousnessTransform(input, level) ==
    CASE level = "Alpha" -> [i \in DOMAIN input |-> (input[i] + 1) % 256]
      [] level = "Beta"  ->
            [i \in DOMAIN input |->
                IF i % 4 = 1 /\ i + 3 <= Len(input)
                THEN (input[i] + input[i + 1] + input[i + 2] + input[i + 3]) % 256
                ELSE input[i]]
      [] level = "Gamma" -> RecursiveTransform(input, 3)
      [] level = "Delta" -> [i \in DOMAIN input |-> Xor(input[i], 170)]
      [] level = "Omega" ->
            [i \in DOMAIN input |-> (input[i] + Transcendent(i - 1)) % 256]

\* LifecycleManager builds the processor at config.initial_consciousness,
\* Alpha by default
WarpInit ==
    /\ warp_level = "Alpha"
    /\ warp_call = [c \in Callers |-> NoEnhance]
    /\ enhanced = NoEnhanced

WarpIdle == WarpInit

\* enhance_computation up to the return of elevate_to: the warp_level chosen
\* for the computation, and the processor raised to it when it is higher
EnhanceElevate(c, computation) ==
    /\ ~warp_call[c].busy
    /\ LET target == SelectConsciousnessLevel(AnalyzeComplexity(computation))
       IN warp_level' = IF LevelRank(target) <= LevelRank(warp_level) THEN warp_level ELSE target
    /\ warp_call' = [warp_call EXCEPT ![c] = [busy |-> TRUE, input |-> computation]]
    /\ UNCHANGED <<enhanced, notWarpVars>>

\* process from *self.warp_level.read() on: the transform at the processor's
\* warp_level, and the return
EnhanceProcess(c) ==
    /\ warp_call[c].busy
    /\ enhanced' = [called |-> TRUE, input |-> warp_call[c].input,
                    output |-> ApplyConsciousnessTransform(warp_call[c].input, warp_level)]
    /\ warp_call' = [warp_call EXCEPT ![c] = NoEnhance]
    /\ UNCHANGED <<warp_level, notWarpVars>>

WarpNext ==
    \/ \E c \in Callers, computation \in Computations : EnhanceElevate(c, computation)
    \/ \E c \in Callers : EnhanceProcess(c)

\* --------------------------------- TaskScheduler: the queue and the worker
\* The scheduler is built with one backend, so select_backend always finds
\* one; each call (submit, one pass of worker_loop, the end of
\* execute_task) is taken whole.
Jobs == 1..NumJobs

NoJob == [priority |-> Low, dependencies |-> {}]

\* dependencies_met over the statuses kept for the jobs
JobReady(st, deps) == \A d \in deps : st[d] = "Completed"

ServeInit ==
    /\ serve_queues = EmptyQueues
    /\ serve_task = [j \in Jobs |-> NoJob]
    /\ serve_status = [j \in Jobs |-> "New"]
    /\ serve_tick = 0
    /\ serve_runs = [j \in Jobs |-> 0]

ServeIdle == ServeInit

\* submit(task): pushed when dependencies_met is false, else execute_task
ServeSubmit(j, p, deps) ==
    /\ serve_status[j] = "New"
    /\ j \notin deps
    /\ serve_task' = [serve_task EXCEPT ![j] = [priority |-> p, dependencies |-> deps]]
    /\ IF JobReady(serve_status, deps)
       THEN /\ serve_status' = [serve_status EXCEPT ![j] = "Running"]
            /\ serve_runs' = [serve_runs EXCEPT ![j] = @ + 1]
            /\ UNCHANGED serve_queues
       ELSE /\ serve_status' = [serve_status EXCEPT ![j] = "Pending"]
            /\ serve_queues' = Push(serve_queues, j, p)
            /\ UNCHANGED serve_runs
    /\ UNCHANGED <<serve_tick, notServeVars>>

\* worker_loop: one pass after a tick: nothing to do on an empty queue;
\* the task popped is pushed again when dependencies_met is false, else
\* execute_task
ServeTick ==
    /\ serve_tick' = 1 - serve_tick
    /\ LET j == PopTask(serve_queues) IN
         IF j = NoTask THEN UNCHANGED <<serve_queues, serve_status, serve_runs>>
         ELSE IF JobReady(serve_status, serve_task[j].dependencies)
         THEN /\ serve_queues' = PopRest(serve_queues)
              /\ serve_status' = [serve_status EXCEPT ![j] = "Running"]
              /\ serve_runs' = [serve_runs EXCEPT ![j] = @ + 1]
         ELSE /\ serve_queues' = Push(PopRest(serve_queues), j, serve_task[j].priority)
              /\ UNCHANGED <<serve_status, serve_runs>>
    /\ UNCHANGED <<serve_task, notServeVars>>

\* execute_task: the backend returns, the status goes to completed
ServeFinish(j, ok) ==
    /\ serve_status[j] = "Running"
    /\ serve_status' = [serve_status EXCEPT ![j] = IF ok THEN "Completed" ELSE "Failed"]
    /\ UNCHANGED <<serve_queues, serve_task, serve_tick, serve_runs, notServeVars>>

ServeNext ==
    \/ \E j \in Jobs, p \in SubmitPriorities, deps \in SUBSET Jobs : ServeSubmit(j, p, deps)
    \/ ServeTick
    \/ \E j \in Jobs, ok \in BOOLEAN : ServeFinish(j, ok)

\* ------------------------------------ Web3GpuAggregator: job allocations
\* one Web3GpuBackend::execute per job id; the inventory holds a GPU that
\* suits the requirements execute builds
GpuJobs == 1..NumGpuJobs

NoAllocation == 0

AllocateInit ==
    /\ active_jobs = {}
    /\ provider_allocations = {}
    /\ active_allocation = NoAllocation
    /\ gpu_call = [j \in GpuJobs |-> "idle"]

AllocateIdle == AllocateInit

\* allocate_gpu up to the provider's answer: select_gpu, then
\* provider.allocate_gpu(..).await.context(..)?, which makes the allocation
\* at the provider or fails the call and execute with it
ProviderAllocate(j, ok) ==
    /\ gpu_call[j] = "idle"
    /\ provider_allocations' = IF ok THEN provider_allocations \cup {j}
                               ELSE provider_allocations
    /\ gpu_call' = [gpu_call EXCEPT ![j] = IF ok THEN "allocated" ELSE "failed"]
    /\ UNCHANGED <<active_jobs, active_allocation, notAllocateVars>>

\* allocate_gpu: jobs.push(allocation) and the return; execute stores the
\* allocation in the backend's active_allocation
TrackAllocation(j) ==
    /\ gpu_call[j] = "allocated"
    /\ active_jobs' = active_jobs \cup {j}
    /\ active_allocation' = j
    /\ gpu_call' = [gpu_call EXCEPT ![j] = "active"]
    /\ UNCHANGED <<provider_allocations, notAllocateVars>>

\* release_gpu(job_id) under the write lock on active_jobs: the job found
\* is removed first, then provider.release_gpu(..).await? releases it or
\* fails the call
ReleaseGpu(jobs, made, j, ok) ==
    [jobs |-> jobs \ {j},
     held |-> IF j \in jobs /\ ok THEN made \ {j} ELSE made,
     err |-> j \in jobs /\ ~ok]

\* execute: release_gpu(&job_id).await?, and after an Ok the allocation
\* slot is cleared
ExecuteRelease(j, ok) ==
    /\ gpu_call[j] = "active"
    /\ LET r == ReleaseGpu(active_jobs, provider_allocations, j, ok) IN
        /\ active_jobs' = r.jobs
        /\ provider_allocations' = r.held
        /\ active_allocation' = IF r.err THEN active_allocation ELSE NoAllocation
        /\ gpu_call' = [gpu_call EXCEPT ![j] = IF r.err THEN "release failed" ELSE "done"]
    /\ UNCHANGED notAllocateVars

\* Web3GpuBackend::shutdown (it takes &mut self: no execute is running):
\* release_gpu of the allocation the slot holds
Web3GpuShutdown(ok) ==
    /\ active_allocation /= NoAllocation
    /\ \A j \in GpuJobs : gpu_call[j] \in {"idle", "failed", "release failed", "done"}
    /\ LET r == ReleaseGpu(active_jobs, provider_allocations, active_allocation, ok) IN
        /\ active_jobs' = r.jobs
        /\ provider_allocations' = r.held
    /\ UNCHANGED <<active_allocation, gpu_call, notAllocateVars>>

AllocateNext ==
    \/ \E j \in GpuJobs, ok \in BOOLEAN : ProviderAllocate(j, ok)
    \/ \E j \in GpuJobs : TrackAllocation(j)
    \/ \E j \in GpuJobs, ok \in BOOLEAN : ExecuteRelease(j, ok)
    \/ \E ok \in BOOLEAN : Web3GpuShutdown(ok)

\* ----------------------------------- MemoryBuffer: the gpu_locked and pinned flags
\* One buffer shared by the callers.  A caller calls unlock_from_gpu (unpin)
\* after a lock_for_gpu (pin) of its own that returned Ok; the flags record
\* no holder, so this pairing is the callers' part.
Lockers == 1..NumLockers

FlagInit ==
    /\ lock_flag = FALSE
    /\ pin_flag = FALSE
    /\ lock_holders = {}
    /\ pin_holders = {}
    /\ lock_last = [c \in Lockers |-> "none"]
    /\ pin_last = [c \in Lockers |-> "none"]

FlagIdle == FlagInit

\* a plain store(true) in place of the compare-exchange
StoreTrue(flag) == [ok |-> TRUE, flag |-> TRUE]

\* compare_exchange(false, true, Acquire, Relaxed): Ok and the flag set when
\* it was clear, Err and the flag as it was otherwise
CompareExchange(flag) == [ok |-> ~flag, flag |-> TRUE]

\* lock_for_gpu
LockCall(c) ==
    /\ c \notin lock_holders
    /\ LET r == CompareExchange(lock_flag) IN
        /\ lock_flag' = r.flag
        /\ lock_last' = [lock_last EXCEPT ![c] = IF r.ok THEN "ok" ELSE "err"]
        /\ lock_holders' = IF r.ok THEN lock_holders \cup {c} ELSE lock_holders
    /\ UNCHANGED <<pin_flag, pin_holders, pin_last, notFlagVars>>

\* unlock_from_gpu: gpu_locked.store(false, Release)
UnlockCall(c) ==
    /\ c \in lock_holders
    /\ lock_flag' = FALSE
    /\ lock_holders' = lock_holders \ {c}
    /\ lock_last' = [lock_last EXCEPT ![c] = "none"]
    /\ UNCHANGED <<pin_flag, pin_holders, pin_last, notFlagVars>>

\* pin
PinCall(c) ==
    /\ c \notin pin_holders
    /\ LET r == CompareExchange(pin_flag) IN
        /\ pin_flag' = r.flag
        /\ pin_last' = [pin_last EXCEPT ![c] = IF r.ok THEN "ok" ELSE "err"]
        /\ pin_holders' = IF r.ok THEN pin_holders \cup {c} ELSE pin_holders
    /\ UNCHANGED <<lock_flag, lock_holders, lock_last, notFlagVars>>

\* unpin: pinned.store(false, Release)
UnpinCall(c) ==
    /\ c \in pin_holders
    /\ pin_flag' = FALSE
    /\ pin_holders' = pin_holders \ {c}
    /\ pin_last' = [pin_last EXCEPT ![c] = "none"]
    /\ UNCHANGED <<lock_flag, lock_holders, lock_last, notFlagVars>>

FlagNext ==
    \/ \E c \in Lockers : LockCall(c)
    \/ \E c \in Lockers : UnlockCall(c)
    \/ \E c \in Lockers : PinCall(c)
    \/ \E c \in Lockers : UnpinCall(c)

\* ------------------------------------------------------ GpuMemoryAllocator
NoGpuCall == [op |-> "idle", size |-> 0, current |-> 0]

\* GpuMemoryAllocator::new(strategy, DeviceMemory)
DeviceInit ==
    /\ gpu_allocated = 0
    /\ live_handles = <<>>
    /\ device_call = NoGpuCall

DeviceIdle == DeviceInit

\* allocate(size): the load of `allocated` and the bound check; bail! leaves
\* nothing behind
GpuAllocateLoad(size) ==
    /\ device_call.op = "idle"
    /\ Len(live_handles) < MaxLive
    /\ device_call' = IF gpu_allocated + size > DeviceMemory
                   THEN NoGpuCall
                   ELSE [op |-> "add", size |-> size, current |-> gpu_allocated]
    /\ UNCHANGED <<gpu_allocated, live_handles, notDeviceVars>>

\* allocate: fetch_add(size) and the handle { offset: current, size }
GpuAllocateAdd ==
    /\ device_call.op = "add"
    /\ gpu_allocated' = gpu_allocated + device_call.size
    /\ live_handles' = Append(live_handles,
                              [offset |-> device_call.current, size |-> device_call.size])
    /\ device_call' = NoGpuCall
    /\ UNCHANGED notDeviceVars

\* free(handle): fetch_sub(handle.size)
GpuFree(i) ==
    /\ i \in DOMAIN live_handles
    /\ gpu_allocated' = gpu_allocated - live_handles[i].size
    /\ live_handles' = [k \in 1..(Len(live_handles) - 1) |->
                           IF k < i THEN live_handles[k] ELSE live_handles[k + 1]]
    /\ UNCHANGED <<device_call, notDeviceVars>>

DeviceNext ==
    \/ \E size \in 1..MaxSize : GpuAllocateLoad(size)
    \/ GpuAllocateAdd
    \/ \E i \in 1..MaxLive : GpuFree(i)

\* ---------------------------------------------------------- DagScheduler
\* DagScheduler over the TaskScheduler above.  dag.nodes keeps every task
\* of every workflow added, as "root" when its dependencies are empty and
\* as "dependent" otherwise ("absent": not in the dag).  The tokio RwLock around the dag is kept as its guard.

DagInit ==
    /\ dag_nodes = [j \in Jobs |-> "absent"]
    /\ dag_guard = "free"

DagIdle == DagInit

\* a read served whatever guard is alive
ReadServed(guard) == TRUE

\* dag.read().await while this call holds `guard`: served only
\* when no write guard is alive
ReadGranted(guard) == guard /= "write"

\* schedule_ready_tasks: scheduler.submit(task.clone()) for every node of
\* dag.nodes whose dependencies are empty; submit finds dependencies_met
\* true and goes to execute_task
SubmitRoots(kinds, st) ==
    [j \in Jobs |-> IF kinds[j] = "root" THEN "Running" ELSE st[j]]

\* add_workflow(tasks): dag.write().await, the nodes inserted, then
\* schedule_ready_tasks().await with the write guard `dag` still alive (it
\* is dropped at the end of add_workflow): the dag.read().await inside is
\* not served and the call stays there, the guard with it
AddWorkflow(tasks, roots) ==
    /\ dag_guard = "free"
    /\ \A j \in tasks : serve_status[j] = "New" /\ dag_nodes[j] = "absent"
    /\ LET added == [j \in Jobs |-> IF j \in roots THEN "root"
                                    ELSE IF j \in tasks THEN "dependent"
                                    ELSE dag_nodes[j]]
       IN /\ dag_nodes' = added
          /\ IF ReadGranted("write")
             THEN /\ serve_status' = SubmitRoots(added, serve_status)
                  /\ serve_runs' = [j \in Jobs |->
                        IF added[j] = "root" THEN serve_runs[j] + 1 ELSE serve_runs[j]]
                  /\ dag_guard' = "free"
             ELSE /\ dag_guard' = "write"
                  /\ UNCHANGED <<serve_status, serve_runs>>
    /\ UNCHANGED <<serve_queues, serve_task, serve_tick, notServeDagVars>>

WorkflowNext ==
    \/ ServeNext
    \/ \E tasks \in SUBSET Jobs : \E roots \in SUBSET tasks :
          AddWorkflow(tasks, roots)

\* ------------------------------------------------------- TaskScheduler
\* the key HashMap::keys().next() yields
FirstKey(bs) == IF bs = {} THEN NoBackend ELSE CHOOSE b \in bs : TRUE

\* TaskScheduler::select_backend, for the four built-in strategies
SelectBackend(bs, hint) ==
    IF hint /= NoBackend /\ hint \in bs THEN hint ELSE FirstKey(bs)

\* dependencies_met taking any recorded status for a completion
DepCompletedAnyStatus(c, d) == c[d] /= None

\* one lookup of TaskScheduler::dependencies_met
DepCompleted(c, d) == c[d].tag = "Completed"

\* TaskScheduler::status
StatusOf(id) ==
    IF active[id] /= NoHandle THEN active[id].status ELSE completed[id]

\* submit and worker_loop, after a dependency lookup that did not miss:
\* with lookups left dependencies_met goes on; with none left it returns
\* true and select_backend decides between execute_task and the queue
Route(bs, hint, remaining) ==
    IF remaining /= {} THEN "deps"
    ELSE IF SelectBackend(bs, hint) = NoBackend THEN "queued"
    ELSE "insert"

InExecute(t) == phase[t] \in {"insert", "await", "remove", "store"}
Terminal(t) == phase[t] = "done"
Submitted(t) == phase[t] /= "new"
\* submit(t) has returned Ok(id): the task went to a queue or ran to its end
Returned(t) == phase[t] \in {"queued", "done"} \/ \E w \in Workers : wtask[w] = t

SchedInit ==
    /\ backends \in BackendSets
    /\ queues = EmptyQueues
    /\ active = [t \in Tasks |-> NoHandle]
    /\ completed = [t \in Tasks |-> None]
    /\ shutdown = FALSE
    /\ activeLock = "free"
    /\ task = [t \in Tasks |-> NoAttrs]
    /\ expired = {}
    /\ phase = [t \in Tasks |-> "new"]
    /\ toCheck = [t \in Tasks |-> {}]
    /\ result = [t \in Tasks |-> None]
    /\ cancel_rx = [t \in Tasks |-> "none"]
    /\ wpc = [w \in Workers |-> "tick"]
    /\ wtask = [w \in Workers |-> NoTask]
    /\ mon = "tick"
    /\ cancelId = NoTask
    /\ cancelledPending = {}

\* the worker handling t, if one is, goes back to the top of its loop
ReleaseWorker(t) ==
    /\ wtask' = [w \in Workers |-> IF wtask[w] = t THEN NoTask ELSE wtask[w]]
    /\ wpc' = [w \in Workers |-> IF wtask[w] = t THEN "tick" ELSE wpc[w]]

\* submit(task): dependencies_met up to its first lookup; without
\* dependencies select_backend, and the push when it finds none
SubmitCall(t, p, deps, hint) ==
    /\ phase[t] = "new"
    /\ \A u \in Tasks : u < t => phase[u] /= "new"
    /\ task' = [task EXCEPT ![t] = [priority |-> p, dependencies |-> deps,
                                    backend_hint |-> hint]]
    /\ LET nxt == Route(backends, hint, deps) IN
        /\ phase' = [phase EXCEPT ![t] = nxt]
        /\ queues' = IF nxt = "queued" THEN Push(queues, t, p) ELSE queues
    /\ toCheck' = [toCheck EXCEPT ![t] = deps]
    /\ UNCHANGED <<backends, active, completed, shutdown, activeLock, expired,
                   result, cancel_rx, wpc, wtask, mon, cancelId,
                   cancelledPending,
                   notSchedVars>>

\* dependencies_met: one iteration of the loop.  On a miss the caller
\* (submit or worker_loop) pushes the task on its queue; after the last
\* lookup select_backend runs
DepCheck(t) ==
    /\ phase[t] = "deps"
    /\ \E d \in toCheck[t] :
        LET nxt == IF DepCompleted(completed, d)
                   THEN Route(backends, task[t].backend_hint, toCheck[t] \ {d})
                   ELSE "queued"
        IN  /\ phase' = [phase EXCEPT ![t] = nxt]
            /\ toCheck' = [toCheck EXCEPT ![t] = IF nxt = "deps" THEN @ \ {d} ELSE {}]
            /\ IF nxt = "queued"
               THEN /\ queues' = Push(queues, t, task[t].priority)
                    /\ ReleaseWorker(t)
               ELSE UNCHANGED <<queues, wpc, wtask>>
    /\ UNCHANGED <<backends, active, completed, shutdown, activeLock, task,
                   expired, result, cancel_rx, mon, cancelId, cancelledPending,
                   notSchedVars>>

\* execute_task: status = Running, the oneshot channel, active.insert
ExecInsert(t) ==
    /\ phase[t] = "insert"
    /\ activeLock = "free"
    /\ active' = [active EXCEPT ![t] =
                    [status |-> Running,
                     backend |-> SelectBackend(backends, task[t].backend_hint),
                     cancel_tx |-> TRUE]]
    /\ cancel_rx' = [cancel_rx EXCEPT ![t] = "open"]
    /\ phase' = [phase EXCEPT ![t] = "await"]
    /\ UNCHANGED <<backends, queues, completed, shutdown, activeLock, task,
                   expired, toCheck, result, wpc, wtask, mon, cancelId,
                   cancelledPending,
                   notSchedVars>>

\* execute_task: select! resolves with the backend's result and drops cancel_rx
AwaitBackend(t, r) ==
    /\ phase[t] = "await"
    /\ result' = [result EXCEPT ![t] = r]
    /\ cancel_rx' = [cancel_rx EXCEPT ![t] = "none"]
    /\ phase' = [phase EXCEPT ![t] = "remove"]
    /\ UNCHANGED <<backends, queues, active, completed, shutdown, activeLock,
                   task, expired, toCheck, wpc, wtask, mon, cancelId,
                   cancelledPending,
                   notSchedVars>>

\* the status execute_task computes when cancel_rx resolves: Ok(vec![])
CancelledResult == Completed("")

\* execute_task: select! resolves with cancel_rx
AwaitCancel(t) ==
    /\ phase[t] = "await"
    /\ cancel_rx[t] = "sent"
    /\ result' = [result EXCEPT ![t] = CancelledResult]
    /\ cancel_rx' = [cancel_rx EXCEPT ![t] = "none"]
    /\ phase' = [phase EXCEPT ![t] = "remove"]
    /\ UNCHANGED <<backends, queues, active, completed, shutdown, activeLock,
                   task, expired, toCheck, wpc, wtask, mon, cancelId,
                   cancelledPending,
                   notSchedVars>>

\* execute_task: active.write().await.remove(&task.id)
ExecRemove(t) ==
    /\ phase[t] = "remove"
    /\ activeLock = "free"
    /\ active' = [active EXCEPT ![t] = NoHandle]
    /\ expired' = expired \ {t}
    /\ phase' = [phase EXCEPT ![t] = "store"]
    /\ UNCHANGED <<backends, queues, completed, shutdown, activeLock, task,
                   toCheck, result, cancel_rx, wpc, wtask, mon, cancelId,
                   cancelledPending,
                   notSchedVars>>

\* execute_task: completed.write().await.insert(task.id, status), return
ExecStore(t) ==
    /\ phase[t] = "store"
    /\ completed' = [completed EXCEPT ![t] = result[t]]
    /\ phase' = [phase EXCEPT ![t] = "done"]
    /\ ReleaseWorker(t)
    /\ cancelledPending' = cancelledPending \ {t}
    /\ UNCHANGED <<backends, queues, active, shutdown, activeLock, task,
                   expired, toCheck, result, cancel_rx, mon, cancelId,
                   notSchedVars>>

\* worker_loop: ticker.tick and the shutdown check, which ends the loop
WorkerStop(w) ==
    /\ wpc[w] = "tick"
    /\ shutdown
    /\ wpc' = [wpc EXCEPT ![w] = "stopped"]
    /\ UNCHANGED <<backends, queues, active, completed, shutdown, activeLock,
                   task, expired, phase, toCheck, result, cancel_rx, wtask,
                   mon, cancelId, cancelledPending,
                   notSchedVars>>

\* worker_loop: one pass with shutdown unset: queues.pop(), then as submit
\* does: dependencies_met up to its first lookup.  The read of the flag
\* and the pop are one step: the worker does not read the flag again
\* before its next tick
WorkerPop(w) ==
    /\ wpc[w] = "tick"
    /\ ~shutdown
    /\ PopTask(queues) /= NoTask
    /\ LET t == PopTask(queues)
           nxt == Route(backends, task[t].backend_hint, task[t].dependencies)
       IN   /\ queues' = IF nxt = "queued"
                         THEN Push(PopRest(queues), t, task[t].priority)
                         ELSE PopRest(queues)
            /\ wtask' = [wtask EXCEPT ![w] = IF nxt = "queued" THEN NoTask ELSE t]
            /\ wpc' = [wpc EXCEPT ![w] = IF nxt = "queued" THEN "tick" ELSE "busy"]
            /\ phase' = [phase EXCEPT ![t] = nxt]
            /\ toCheck' = [toCheck EXCEPT ![t] = task[t].dependencies]
    /\ UNCHANGED <<backends, active, completed, shutdown, activeLock, task,
                   expired, result, cancel_rx, mon, cancelId, cancelledPending,
                   notSchedVars>>

\* cancel looking the handle up with get, leaving it in the table
CancelRemoveKeepsHandle(a, id) == a

\* cancel: active.write().await.remove(&id)
CancelRemove(a, id) == [a EXCEPT ![id] = NoHandle]

\* cancel: handle.cancel_tx.take() and cancel.send(()), which reaches a
\* receiver that select! still polls
CancelSend(rx, h, id) ==
    IF h.cancel_tx /\ rx[id] = "open" THEN [rx EXCEPT ![id] = "sent"] ELSE rx

\* cancel: completed.write().await.insert(id, TaskStatus::Cancelled)
CancelInsert(c, id) == [c EXCEPT ![id] = Cancelled]

\* cancel(id) by a caller of the scheduler, up to the insert into completed;
\* the guard on active stays alive when the id was found
CancelBegin(id) ==
    /\ activeLock = "free"
    /\ cancelledPending' = IF id \in Queued(queues)
                           THEN cancelledPending \cup {id}
                           ELSE cancelledPending
    /\ IF active[id] /= NoHandle
       THEN /\ active' = CancelRemove(active, id)
            /\ cancel_rx' = CancelSend(cancel_rx, active[id], id)
            /\ expired' = expired \ {id}
            /\ activeLock' = "cancel"
            /\ cancelId' = id
       ELSE UNCHANGED <<active, cancel_rx, expired, activeLock, cancelId>>
    /\ UNCHANGED <<backends, queues, completed, shutdown, task, phase,
                   toCheck, result, wpc, wtask, mon,
                   notSchedVars>>

\* cancel(id): the insert into completed; the active guard drops after it
CancelEnd ==
    /\ activeLock = "cancel"
    /\ completed' = CancelInsert(completed, cancelId)
    /\ activeLock' = "free"
    /\ cancelId' = NoTask
    /\ UNCHANGED <<backends, queues, active, shutdown, task, expired, phase,
                   toCheck, result, cancel_rx, wpc, wtask, mon,
                   cancelledPending,
                   notSchedVars>>

\* monitor_loop: ticker.tick and the shutdown check, which ends the loop
MonitorStop ==
    /\ mon = "tick"
    /\ shutdown
    /\ mon' = "stopped"
    /\ UNCHANGED <<backends, queues, active, completed, shutdown, activeLock,
                   task, expired, phase, toCheck, result, cancel_rx, wpc,
                   wtask, cancelId, cancelledPending,
                   notSchedVars>>

\* monitor_loop: one pass with shutdown unset: active.read() and the loop
\* over the table.  On a timed-out task it calls cancel(id), whose
\* active.write() waits for the read guard the monitor itself holds; a pass
\* that meets none drops the guard and changes nothing
MonitorScan ==
    /\ mon = "tick"
    /\ ~shutdown
    /\ activeLock = "free"
    /\ expired /= {}
    /\ mon' = "cancel"
    /\ activeLock' = "monitor"
    /\ UNCHANGED <<backends, queues, active, completed, shutdown, task,
                   expired, phase, toCheck, result, cancel_rx, wpc, wtask,
                   cancelId, cancelledPending,
                   notSchedVars>>

\* the clock passes created_at + timeout of a task in the active table
Timeout(t) ==
    /\ t \notin expired
    /\ active[t] /= NoHandle
    /\ expired' = expired \cup {t}
    /\ UNCHANGED <<backends, queues, active, completed, shutdown, activeLock,
                   task, phase, toCheck, result, cancel_rx, wpc, wtask, mon,
                   cancelId, cancelledPending,
                   notSchedVars>>

\* TaskScheduler::shutdown
Shutdown ==
    /\ ~shutdown
    /\ shutdown' = TRUE
    /\ UNCHANGED <<backends, queues, active, completed, activeLock, task,
                   expired, phase, toCheck, result, cancel_rx, wpc, wtask,
                   mon, cancelId, cancelledPending,
                   notSchedVars>>

DepChoices(t) == SUBSET {u \in Tasks : u < t}

Next ==
    \/ \E t \in Tasks, p \in SubmitPriorities, h \in HintChoices :
         \E deps \in DepChoices(t) : SubmitCall(t, p, deps, h)
    \/ \E t \in Tasks : DepCheck(t)
    \/ \E t \in Tasks : ExecInsert(t)
    \/ \E t \in Tasks, r \in BackendResults : AwaitBackend(t, r)
    \/ \E t \in Tasks : AwaitCancel(t)
    \/ \E t \in Tasks : ExecRemove(t)
    \/ \E t \in Tasks : ExecStore(t)
    \/ \E w \in Workers : WorkerStop(w)
    \/ \E w \in Workers : WorkerPop(w)
    \/ \E id \in Tasks : CancelBegin(id)
    \/ CancelEnd
    \/ MonitorStop
    \/ MonitorScan
    \/ \E t \in Tasks : Timeout(t)
    \/ Shutdown

Init == SchedInit /\ PoolIdle /\ BufferIdle /\ EngineIdle /\ QueueIdle /\ SelectIdle /\ StrategyIdle /\ DispatchIdle /\ CommitIdle /\ MerkleIdle /\ ThresholdIdle /\ InventoryIdle /\ ChooseIdle /\ WarpIdle /\ ServeIdle /\ RotateIdle /\ AllocateIdle /\ FlagIdle /\ DeviceIdle /\ DagIdle

Spec == Init /\ [][Next]_vars

\* the tokio runtime polls every spawned worker and every task under
\* execution again and again: no step of theirs stays enabled for ever
\* without being taken
WorkerFairness ==
    /\ \A w \in Workers : WF_vars(WorkerPop(w)) /\ WF_vars(WorkerStop(w))
    /\ \A t \in Tasks :
         /\ WF_vars(DepCheck(t))
         /\ WF_vars(ExecInsert(t))
         /\ WF_vars(\E r \in BackendResults : AwaitBackend(t, r))
         /\ WF_vars(AwaitCancel(t))
         /\ WF_vars(ExecRemove(t))
         /\ WF_vars(ExecStore(t))

FairSpec == Init /\ [][Next]_vars /\ WorkerFairness

\* the scheduler before any task is submitted
SchedIdle == SchedInit /\ backends = {}

PoolStart == PoolInit /\ SchedIdle /\ BufferIdle /\ EngineIdle /\ QueueIdle /\ SelectIdle /\ StrategyIdle /\ DispatchIdle /\ CommitIdle /\ MerkleIdle /\ ThresholdIdle /\ InventoryIdle /\ ChooseIdle /\ WarpIdle /\ ServeIdle /\ RotateIdle /\ AllocateIdle /\ FlagIdle /\ DeviceIdle /\ DagIdle

PoolSpec == PoolStart /\ [][PoolNext]_vars

BufferStart == BufferInit /\ SchedIdle /\ EngineIdle /\ QueueIdle /\ SelectIdle /\ StrategyIdle /\ DispatchIdle /\ CommitIdle /\ MerkleIdle /\ ThresholdIdle /\ InventoryIdle /\ ChooseIdle /\ WarpIdle /\ ServeIdle /\ RotateIdle /\ AllocateIdle /\ FlagIdle /\ DeviceIdle /\ DagIdle

BufferSpec == BufferStart /\ [][BufferNext]_vars

\* ReassemblyEngine::new: an empty pool of max_memory bytes
EngineStart == PoolInit /\ BufferIdle /\ SchedIdle /\ EngineIdle /\ QueueIdle /\ SelectIdle /\ StrategyIdle /\ DispatchIdle /\ CommitIdle /\ MerkleIdle /\ ThresholdIdle /\ InventoryIdle /\ ChooseIdle /\ WarpIdle /\ ServeIdle /\ RotateIdle /\ AllocateIdle /\ FlagIdle /\ DeviceIdle /\ DagIdle

EngineSpec == EngineStart /\ [][EngineNext]_vars

\* PriorityQueues::new
QueueStart == SchedIdle /\ PoolIdle /\ BufferIdle /\ EngineIdle /\ QueueIdle /\ SelectIdle /\ StrategyIdle /\ DispatchIdle /\ CommitIdle /\ MerkleIdle /\ ThresholdIdle /\ InventoryIdle /\ ChooseIdle /\ WarpIdle /\ ServeIdle /\ RotateIdle /\ AllocateIdle /\ FlagIdle /\ DeviceIdle /\ DagIdle

QueueSpec == QueueStart /\ [][QueueNext]_vars

SelectStart == SelectInit /\ SchedIdle /\ PoolIdle /\ BufferIdle /\ EngineIdle /\ QueueIdle /\ StrategyIdle /\ DispatchIdle /\ CommitIdle /\ MerkleIdle /\ ThresholdIdle /\ InventoryIdle /\ ChooseIdle /\ WarpIdle /\ ServeIdle /\ RotateIdle /\ AllocateIdle /\ FlagIdle /\ DeviceIdle /\ DagIdle

SelectSpec == SelectStart /\ [][SelectNext]_vars

StrategyStart == StrategyInit /\ SchedIdle /\ PoolIdle /\ BufferIdle /\ EngineIdle /\ QueueIdle /\ SelectIdle /\ DispatchIdle /\ CommitIdle /\ MerkleIdle /\ ThresholdIdle /\ InventoryIdle /\ ChooseIdle /\ WarpIdle /\ ServeIdle /\ RotateIdle /\ AllocateIdle /\ FlagIdle /\ DeviceIdle /\ DagIdle

StrategySpec == StrategyStart /\ [][StrategyNext]_vars

DispatchStart == DispatchInit /\ SchedIdle /\ PoolIdle /\ BufferIdle /\ EngineIdle /\ QueueIdle /\ SelectIdle /\ StrategyIdle /\ CommitIdle /\ MerkleIdle /\ ThresholdIdle /\ InventoryIdle /\ ChooseIdle /\ WarpIdle /\ ServeIdle /\ RotateIdle /\ AllocateIdle /\ FlagIdle /\ DeviceIdle /\ DagIdle

DispatchSpec == DispatchStart /\ [][DispatchNext]_vars

CommitStart == CommitInit /\ SchedIdle /\ PoolIdle /\ BufferIdle /\ EngineIdle /\ QueueIdle /\ SelectIdle /\ StrategyIdle /\ DispatchIdle /\ MerkleIdle /\ ThresholdIdle /\ InventoryIdle /\ ChooseIdle /\ WarpIdle /\ ServeIdle /\ RotateIdle /\ AllocateIdle /\ FlagIdle /\ DeviceIdle /\ DagIdle

CommitSpec == CommitStart /\ [][CommitNext]_vars

MerkleStart == MerkleInit /\ SchedIdle /\ PoolIdle /\ BufferIdle /\ EngineIdle /\ QueueIdle /\ SelectIdle /\ StrategyIdle /\ DispatchIdle /\ CommitIdle /\ ThresholdIdle /\ InventoryIdle /\ ChooseIdle /\ WarpIdle /\ ServeIdle /\ RotateIdle /\ AllocateIdle /\ FlagIdle /\ DeviceIdle /\ DagIdle

MerkleSpec == MerkleStart /\ [][MerkleNext]_vars

ThresholdStart == ThresholdInit /\ SchedIdle /\ PoolIdle /\ BufferIdle /\ EngineIdle /\ QueueIdle /\ SelectIdle /\ StrategyIdle /\ DispatchIdle /\ CommitIdle /\ MerkleIdle /\ InventoryIdle /\ ChooseIdle /\ WarpIdle /\ ServeIdle /\ RotateIdle /\ AllocateIdle /\ FlagIdle /\ DeviceIdle /\ DagIdle

ThresholdSpec == ThresholdStart /\ [][ThresholdNext]_vars

InventoryStart == InventoryInit /\ SchedIdle /\ PoolIdle /\ BufferIdle /\ EngineIdle /\ QueueIdle /\ SelectIdle /\ StrategyIdle /\ DispatchIdle /\ CommitIdle /\ MerkleIdle /\ ThresholdIdle /\ ChooseIdle /\ WarpIdle /\ ServeIdle /\ RotateIdle /\ AllocateIdle /\ FlagIdle /\ DeviceIdle /\ DagIdle

InventorySpec == InventoryStart /\ [][InventoryNext]_vars

ChooseStart == ChooseInit /\ SchedIdle /\ PoolIdle /\ BufferIdle /\ EngineIdle /\ QueueIdle /\ SelectIdle /\ StrategyIdle /\ DispatchIdle /\ CommitIdle /\ MerkleIdle /\ ThresholdIdle /\ InventoryIdle /\ WarpIdle /\ ServeIdle /\ RotateIdle /\ AllocateIdle /\ FlagIdle /\ DeviceIdle /\ DagIdle

ChooseSpec == ChooseStart /\ [][ChooseNext]_vars

WarpStart == WarpInit /\ SchedIdle /\ PoolIdle /\ BufferIdle /\ EngineIdle /\ QueueIdle /\ SelectIdle /\ StrategyIdle /\ DispatchIdle /\ CommitIdle /\ MerkleIdle /\ ThresholdIdle /\ InventoryIdle /\ ChooseIdle /\ ServeIdle /\ RotateIdle /\ AllocateIdle /\ FlagIdle /\ DeviceIdle /\ DagIdle

WarpSpec == WarpStart /\ [][WarpNext]_vars

ServeStart == ServeInit /\ SchedIdle /\ PoolIdle /\ BufferIdle /\ EngineIdle /\ QueueIdle /\ SelectIdle /\ StrategyIdle /\ DispatchIdle /\ CommitIdle /\ MerkleIdle /\ ThresholdIdle /\ InventoryIdle /\ ChooseIdle /\ WarpIdle /\ RotateIdle /\ AllocateIdle /\ FlagIdle /\ DeviceIdle /\ DagIdle

ServeSpec == ServeStart /\ [][ServeNext]_vars

\* the tokio runtime wakes the worker at every tick and polls every
\* running execute_task to its end
ServeFairness ==
    /\ WF_vars(ServeTick)
    /\ \A j \in Jobs : WF_vars(\E ok \in BOOLEAN : ServeFinish(j, ok))

FairServeSpec == ServeStart /\ [][ServeNext]_vars /\ ServeFairness

RotateStart == RotateInit /\ SchedIdle /\ PoolIdle /\ BufferIdle /\ EngineIdle /\ QueueIdle /\ SelectIdle /\ StrategyIdle /\ DispatchIdle /\ CommitIdle /\ MerkleIdle /\ ThresholdIdle /\ InventoryIdle /\ ChooseIdle /\ WarpIdle /\ ServeIdle /\ AllocateIdle /\ FlagIdle /\ DeviceIdle /\ DagIdle

RotateSpec == RotateStart /\ [][RotateNext]_vars

AllocateStart == AllocateInit /\ SchedIdle /\ PoolIdle /\ BufferIdle /\ EngineIdle /\ QueueIdle /\ SelectIdle /\ StrategyIdle /\ DispatchIdle /\ CommitIdle /\ MerkleIdle /\ ThresholdIdle /\ InventoryIdle /\ ChooseIdle /\ WarpIdle /\ ServeIdle /\ RotateIdle /\ FlagIdle /\ DeviceIdle /\ DagIdle

AllocateSpec == AllocateStart /\ [][AllocateNext]_vars

FlagStart == FlagInit /\ SchedIdle /\ PoolIdle /\ BufferIdle /\ EngineIdle /\ QueueIdle /\ SelectIdle /\ StrategyIdle /\ DispatchIdle /\ CommitIdle /\ MerkleIdle /\ ThresholdIdle /\ InventoryIdle /\ ChooseIdle /\ WarpIdle /\ ServeIdle /\ RotateIdle /\ AllocateIdle /\ DeviceIdle /\ DagIdle

FlagSpec == FlagStart /\ [][FlagNext]_vars

DeviceStart == DeviceInit /\ SchedIdle /\ PoolIdle /\ BufferIdle /\ EngineIdle /\ QueueIdle /\ SelectIdle /\ StrategyIdle /\ DispatchIdle /\ CommitIdle /\ MerkleIdle /\ ThresholdIdle /\ InventoryIdle /\ ChooseIdle /\ WarpIdle /\ ServeIdle /\ RotateIdle /\ AllocateIdle /\ FlagIdle /\ DagIdle

DeviceSpec == DeviceStart /\ [][DeviceNext]_vars

WorkflowStart == ServeInit /\ DagInit /\ SchedIdle /\ PoolIdle /\ BufferIdle /\ EngineIdle /\ QueueIdle /\ SelectIdle /\ StrategyIdle /\ DispatchIdle /\ CommitIdle /\ MerkleIdle /\ ThresholdIdle /\ InventoryIdle /\ ChooseIdle /\ WarpIdle /\ RotateIdle /\ AllocateIdle /\ FlagIdle /\ DeviceIdle

WorkflowSpec == WorkflowStart /\ [][WorkflowNext]_vars

\* ------------------------------------------------------------ lock use
\* the callers whose guard on `active` outlives a statement
GuardHolders == {"cancel", "monitor"}

\* the locks a caller holds: cancel's write guard (the `if let` scrutinee)
\* and monitor_loop's read guard (`let active`)
HeldBy(p) == IF activeLock = p THEN {"active"} ELSE {}

\* the lock a caller is waiting for: cancel, inside its `if let`, asks for
\* completed; monitor_loop, inside its loop, calls cancel, which asks for
\* active
WaitsFor(p) ==
    IF p = "cancel" /\ activeLock = "cancel" THEN "completed"
    ELSE IF p = "monitor" /\ mon = "cancel" THEN "active"
    ELSE "nothing"

\* the order of the locks: queue, active table, completed table
LockRank(l) == CASE l = "queue" -> 1 [] l = "active" -> 2 [] OTHER -> 3

\* a whole cancel(id) call on the tables a, c and the receivers rx
CancelCall(a, c, rx, id) ==
    IF a[id] /= NoHandle
    THEN [active |-> CancelRemove(a, id),
          completed |-> CancelInsert(c, id),
          cancel_rx |-> CancelSend(rx, a[id], id)]
    ELSE [active |-> a, completed |-> c, cancel_rx |-> rx]

\* ------------------------------------------------------------ pool use
\* the buffers in use: returned by allocate to a thread that has not freed
\* them since, and not on the free list
LiveBuffers == {b \in Buffers : (\E c \in Callers : b \in owned[c]) /\ b \notin SeqSet(free_buffers)}

\* the sum of MemoryBuffer::size() over a set of buffers
RECURSIVE SizeSum(_)
SizeSum(bs) ==
    IF bs = {} THEN 0
    ELSE LET b == CHOOSE x \in bs : TRUE IN buf[b].size + SizeSum(bs \ {b})

\* the places of the free list whose buffer has room for size bytes
Fitting(size) == {i \in 1..Len(free_buffers) : buf[free_buffers[i]].capacity >= size}

\* the free list without its i-th buffer
Without(list, i) == [j \in 1..(Len(list) - 1) |-> IF j < i THEN list[j] ELSE list[j + 1]]

\* thread c runs alone and takes a step of the free-list loop of allocate
PopStepAlone(c) ==
    /\ call[c].op = "pop"
    /\ \A d \in Callers \ {c} : call[d] = Idle /\ call'[d] = Idle
    /\ call'[c] /= call[c] \/ (free_buffers /= <<>> /\ free_buffers' = Tail(free_buffers))

\* no pool call is in progress
Quiescent == \A c \in Callers : call[c] = Idle

\* ---------------------------------------------------------------- claims

\* C1: a task is inside execute_task (about to be Running, Running, or
\* finishing) only while every one of its dependencies is recorded in the
\* completed table with status Completed(_).
C1_DependenciesCompletedBeforeStart ==
    \A t \in Tasks :
        InExecute(t) =>
            \A d \in task[t].dependencies : completed[d].tag = "Completed"

\* C1 witness: a task with a dependency is Running
C1_Witness ==
    \E t \in Tasks : task[t].dependencies /= {} /\ phase[t] = "await"
                     /\ active[t] /= NoHandle

\* C2: with one worker and tasks without dependencies, when a task reaches
\* its terminal state no submitted, unfinished task has a higher priority,
\* or the same priority and an earlier submission (ids are in submission
\* order).
C2_CompletionRespectsPriority ==
    [][(NumWorkers = 1 /\ \A t \in Tasks : task[t].dependencies = {}) =>
         \A a \in Tasks :
            (~Terminal(a) /\ phase'[a] = "done") =>
                \A b \in Tasks \ {a} :
                    (Submitted(b) /\ ~Terminal(b)) =>
                        \/ task[b].priority < task[a].priority
                        \/ task[b].priority = task[a].priority /\ a < b]_vars

\* C3: once submit(t) has returned, status(t) is defined.
C3_StatusDefinedAfterSubmit ==
    \A t \in Tasks : Returned(t) => StatusOf(t) /= None

\* C4: an entry of the completed table is never replaced by another status.
C4_TerminalImmutable ==
    [][\A t \in Tasks : completed[t] /= None => completed'[t] = completed[t]]_vars

\* C5: a task whose await on execute was interrupted by cancel has the
\* final status Cancelled.
C5_CancelRunningEndsCancelled ==
    \A t \in Tasks :
        (Terminal(t) /\ result[t] = CancelledResult) => completed[t] = Cancelled

\* C6: a Running task whose timeout has elapsed while execute is pending
\* leaves the await with the status Failed("timeout").
C6_TimeoutEndsFailed ==
    [][\A t \in Tasks :
         (phase[t] = "await" /\ t \in expired /\ phase'[t] /= "await") =>
             result'[t] = Failed("timeout")]_vars

\* C7: a task cancel was called on while it sat in a queue is out of the
\* queues and never Running.
C7_PendingCancelRemoves ==
    \A t \in cancelledPending :
        t \notin Queued(queues) /\ ~InExecute(t) /\ active[t] = NoHandle

C9_LockOrder ==
    \A p \in GuardHolders :
        WaitsFor(p) /= "nothing" =>
            \A h \in HeldBy(p) : LockRank(h) < LockRank(WaitsFor(p))

\* C10: the pool's allocated byte counter never exceeds total_size.
C10_AllocatedWithinTotal == allocated <= PoolTotal

\* C11: whenever no pool call is in progress, the allocated counter equals
\* the sum of size() over the live buffers.
C11_AllocatedEqualsLiveSizes == Quiescent => allocated = SizeSum(LiveBuffers)

\* C12: when allocate returns a buffer from the free list, no thread owns
\* that buffer (it was not returned by an earlier allocate to a holder that
\* has not released it since).
C12_SingleOwner ==
    [][\A c \in Callers :
          (call[c].op = "pop" /\ call'[c] = Idle) =>
              \A o \in Callers : Head(free_buffers) \notin owned[o]]_vars

\* C13: gpu_locked is never true while a write is between its lock check
\* and the end of its copy and size update.
C13_NoWriteWhileGpuLocked ==
    \A c \in Callers :
        bcall[c].op = "copy" => ~buf[bcall[c].buffer].gpu_locked

\* C14: a write that finds the buffer GPU-locked, or whose data is longer
\* than the capacity, fails and changes neither bytes nor size; a write that
\* finds the buffer unlocked, with data of at most capacity bytes, succeeds,
\* copies the data and sets size to its length.
C14_WriteRejectsOrStores ==
    [][\A c \in Callers :
          /\ (bcall[c] = NoWrite /\ bcall'[c] /= NoWrite) =>
                /\ data' = data /\ buf' = buf
                /\ bcall'[c].op = "locked" <=> buf[bcall'[c].buffer].gpu_locked
          /\ (bcall[c].op = "copy" /\ bcall'[c].op /= "copy") =>
                LET b == bcall[c].buffer
                    src == bcall[c].src IN
                IF Len(src) > buf[b].capacity
                THEN bcall'[c].op = "too_large" /\ data' = data /\ buf' = buf
                ELSE /\ bcall'[c].op = "ok"
                     /\ buf'[b].size = Len(src)
                     /\ \A i \in 1..Len(src) : data'[b][i] = src[i]]_vars

\* C14 witness: one write was rejected on a locked buffer while another, of
\* at least one byte, has succeeded
C14_Witness ==
    \E c, d \in Callers :
        /\ bcall[c].op = "locked"
        /\ bcall[d].op = "ok" /\ Len(bcall[d].src) > 0
        /\ buf[bcall[d].buffer].size = Len(bcall[d].src)

\* C15: whenever no execute call is in progress, the pool's used() is at
\* the level it had before the calls, which is that of the new engine: 0.
C15_ExecuteReturnsBuffer == EngineIdle => allocated = 0

\* C16: a step of allocate(size) taken while the free list holds a buffer
\* of capacity >= size returns the first such buffer, unlocked and with
\* size() = size, and takes nothing else from the free list.
C16_ReusesFirstFit ==
    [][\A c \in Callers :
          (PopStepAlone(c) /\ Fitting(call[c].size) /= {}) =>
              LET i == CHOOSE k \in Fitting(call[c].size) :
                           \A l \in Fitting(call[c].size) : k <= l
                  b == free_buffers[i] IN
              /\ call'[c] = Idle
              /\ b \in owned'[c]
              /\ ~buf'[b].gpu_locked
              /\ buf'[b].size = call[c].size
              /\ free_buffers' = Without(free_buffers, i)]_vars

\* C17: allocate(size) fails exactly when no free buffer has capacity >=
\* size and allocated + size > total_size, and a failed allocate changes
\* neither the counter, the free list nor the tracked buffers.
C17_ExhaustedOnlyWhenNothingFits ==
    [][\A c \in Callers :
          /\ (call[c] = Idle /\ call'[c] /= Idle) =>
                (call'[c].op = "failed" <=>
                    (Fitting(call'[c].size) = {} /\ allocated + call'[c].size > PoolTotal))
          /\ (call'[c] /= call[c] /\ (call[c].op = "failed" \/ call'[c].op = "failed")) =>
                (allocated' = allocated /\ free_buffers' = free_buffers
                 /\ all_buffers' = all_buffers)]_vars

\* C18: a pop returns the task pushed earliest among the queued tasks of
\* the highest non-empty band and takes only that task away, returns None
\* exactly when nothing is queued, and is_empty is true exactly then.
C18_PopHighestBandFifo ==
    [][/\ IsEmpty(queues) <=> Queued(queues) = {}
       /\ IsEmpty(queues') <=> Queued(queues') = {}
       /\ pushed' = pushed =>
            LET Q == Queued(queues) IN
            IF Q = {}
            THEN popped' = NoTask /\ Queued(queues') = {}
            ELSE /\ popped' \in Q
                 /\ \A j \in Q \ {popped'} :
                       \/ pushed[j] < pushed[popped']
                       \/ pushed[j] = pushed[popped'] /\ popped' < j
                 /\ Queued(queues') = Q \ {popped'}]_vars

\* C18 witness: a pop returned a task while a task of a lower band, pushed
\* before it, and a task of its own band, pushed after it, are still queued
C18_Witness ==
    /\ popped /= NoTask
    /\ \E i, j \in Queued(queues) :
          /\ i < popped /\ pushed[i] < pushed[popped]
          /\ popped < j /\ pushed[j] = pushed[popped]

C20_SelectsMaxScoreFirstRegistered ==
    (selected.called /\ selected.index /= 0) =>
        \A i \in 1..Len(registered) :
            registered[i].available =>
                LET mine == PolicyScore(policy, registered[selected.index].type, large)
                    other == PolicyScore(policy, registered[i].type, large) IN
                mine > other \/ (mine = other /\ selected.index <= i)

\* C20 witness: two available backends of different types share the highest
\* score and the one registered first was returned
C20_Witness ==
    /\ selected.called /\ selected.index = 1
    /\ Len(registered) > 1
    /\ registered[1].available /\ registered[2].available
    /\ registered[1].type /= registered[2].type
    /\ PolicyScore(policy, registered[1].type, large)
         = PolicyScore(policy, registered[2].type, large)

\* the places of the hints that name a registered, available backend
UsableHints ==
    {h \in 1..Len(hints) :
        \E i \in 1..Len(registered) :
            registered[i].type = hints[h] /\ registered[i].available}

\* C21: when a hint names a registered, available backend, the backend
\* selected is the one of the first such hint, whatever the policy scores.
C21_HintBeforePolicy ==
    (selected.called /\ UsableHints /= {}) =>
        /\ selected.index /= 0
        /\ \E h \in UsableHints :
              /\ \A g \in UsableHints : h <= g
              /\ registered[selected.index].type = hints[h]

\* C22: two schedulers under a built-in strategy that hold the same backends
\* select the same backend for tasks without a hint.
C22_SelectionDeterministic ==
    \A r, q \in Runs :
        (/\ chosen[r].called /\ chosen[r].hint = NoBackend
         /\ chosen[q].called /\ chosen[q].hint = NoBackend)
        => chosen[r].backend = chosen[q].backend

\* C23: under fair scheduling of the workers, a submitted task that waits
\* in a queue with no dependencies eventually reaches a terminal state,
\* also when no backend is ever registered, unless the scheduler is shut
\* down first.
C23_QueuedTaskEventuallyTerminal ==
    \A t \in Tasks :
        (phase[t] = "queued" /\ task[t].dependencies = {})
            ~> (Terminal(t) \/ shutdown)

\* C24: an execute call on a backend whose shutdown() has returned gives the
\* BackendClosed error and does not run the module.
C24_ExecuteAfterShutdownClosed ==
    (last.generic /\ last.closed) => (last.result = "closed" /\ ~last.ran)

\* C25: the Web3 backend's own execute always returns an error, and the
\* engine runs a job whose selected backend is Web3 through the provider,
\* submit_computation and then wait_for_result, never through that execute.
C25_LedgerNeverGeneric ==
    /\ (last.generic /\ last.backend = "Web3") => (last.result = "error" /\ ~last.ran)
    /\ (last.caller = "engine" /\ last.backend = "Web3") =>
          /\ ~last.generic
          /\ last.submitted
          /\ last.result = "ok" => last.waited

\* C25 witness: the engine ran a Web3 job through submit and wait to a result
C25_Witness ==
    /\ last.caller = "engine" /\ last.backend = "Web3"
    /\ last.submitted /\ last.waited /\ last.result = "ok"

\* C26: verifying a commitment created over B returns true against B and
\* false against every other byte string.
C26_CommitmentRoundTrip ==
    verdict /= "none" => (verdict = "true" <=> vdata = cdata)

\* C26 witness: a commitment verified against other bytes of the same length
C26_Witness ==
    /\ verdict = "false"
    /\ vdata /= cdata /\ Len(vdata) = Len(cdata) /\ Len(cdata) = MaxData

\* ceil(log2(n)) for n >= 1
RECURSIVE CeilLog2(_)
CeilLog2(n) == IF n <= 1 THEN 0 ELSE 1 + CeilLog2((n + 1) \div 2)

\* the proof in hand was made from the tree as it is built now
ProofOfBuiltTree == proof.some /\ root /= NoRoot /\ proof.root = root

\* C27: on a built tree prove(i) returns a proof for every i below the
\* number of leaves, and verify_proof accepts every proof prove returned.
C27_MerkleRoundTrip ==
    /\ root /= NoRoot => \A i \in 0..(Len(leaves) - 1) : Prove(i).some
    /\ verified /= "none" => verified = "true"

\* C28: the proof of a leaf of a built tree of n leaves has ceil(log2(n))
\* sibling entries.
C28_ProofLength ==
    ProofOfBuiltTree => Len(proof.proof) = CeilLog2(Len(leaves))

\* C29: can_reconstruct() is true exactly when the distinct share indices
\* below the number of participants collected so far number at least the
\* threshold.
C29_ReconstructIffDistinctShares ==
    CanReconstruct <=>
        Cardinality({shares[i] : i \in 1..Len(shares)} \cap 0..(participants - 1))
            >= threshold

\* tflops / price_per_hour does not rise along the list
DescendingEfficiency(gpus) ==
    \A i, j \in 1..Len(gpus) :
        i < j => gpus[i].tflops * gpus[j].price_per_hour
                    >= gpus[j].tflops * gpus[i].price_per_hour

\* the GPUs of a list, with their multiplicities
GpuBag(gpus) == [g \in GpuSpecs |-> Cardinality({i \in 1..Len(gpus) : gpus[i] = g})]

\* C30: the inventory a reader sees is the one behind the lock, sorted by
\* tflops / price_per_hour descending, and the inventory only ever changes
\* to the whole merged listing of one refresh that asked every provider,
\* failed listings contributing nothing.
C30_InventorySnapshotWhole ==
    [][/\ seen' /= seen => (seen' = gpu_inventory /\ DescendingEfficiency(seen'))
       /\ DescendingEfficiency(gpu_inventory')
       /\ gpu_inventory' /= gpu_inventory =>
            \E r \in Refreshers :
                /\ refresh[r].asked = NumProviders
                /\ GpuBag(gpu_inventory') = GpuBag(refresh[r].all_gpus)]_vars

\* C30 witness: a reader holds a sorted two-GPU snapshot of a refresh while
\* another refresh, one of whose listings failed, is part-way through
C30_Witness ==
    /\ Len(seen) = 2 /\ seen = gpu_inventory
    /\ seen[1] /= seen[2]
    /\ \E r \in Refreshers :
         /\ refresh[r].asked = 1
         /\ refresh[r].failed = 1

\* the listings of the inventory that pass every filter of the requirements
Passers(inv, req) ==
    {g \in {inv[i] : i \in DOMAIN inv} :
        /\ g.available
        /\ g.vram_gb >= req.min_vram_gb
        /\ g.tflops >= req.min_tflops
        /\ g.price_per_hour <= req.max_price_per_hour
        /\ g.latency_ms <= req.max_latency_ms
        /\ (req.preferred_providers = {} \/ g.provider \in req.preferred_providers)}

\* g is optimal among the listings ps for the mode
OptimalFor(level, g, ps) ==
    \A h \in ps :
        CASE level = "Alpha" -> g.price_per_hour <= h.price_per_hour
          [] level = "Beta"  -> g.tflops * h.price_per_hour >= h.tflops * g.price_per_hour
          [] level = "Gamma" -> g.latency_ms <= h.latency_ms
          [] level = "Delta" -> g.tflops >= h.tflops
          [] level = "Omega" -> g.tflops * g.vram_gb >= h.tflops * h.vram_gb

\* the value the worked example expects for the mode
ExampleChoice(level) ==
    CASE level = "Beta" -> GpuC
      [] level = "Alpha" -> GpuB
      [] level = "Delta" -> GpuA
      [] OTHER -> GpuD

\* C31: select_gpu fails exactly when no listing passes the filters;
\* otherwise it returns a listing that passes them all and is optimal for
\* the mode among those that pass (Alpha: least price, Beta: greatest
\* tflops/price, Gamma: least latency, Delta: greatest tflops, Omega:
\* greatest tflops * vram); on the inventory {A, B, C} without filters it
\* returns C for Beta, B for Alpha and A for Delta.
C31_SelectGpuOptimal ==
    [][SelectGpuCall =>
        LET ps == Passers(inventory, requirements)
            level == requirements.consciousness_level
        IN /\ gpu_choice'.ok <=> ps /= {}
           /\ gpu_choice'.ok =>
                /\ gpu_choice'.gpu \in ps
                /\ OptimalFor(level, gpu_choice'.gpu, ps)
           /\ ( /\ {inventory[i] : i \in DOMAIN inventory} = {GpuA, GpuB, GpuC}
                /\ requirements = NoFilters(level)
                /\ level \in {"Alpha", "Beta", "Delta"} )
              => gpu_choice' = [called |-> TRUE, ok |-> TRUE, gpu |-> ExampleChoice(level)]]_vars

\* select_gpu has answered Balanced on the inventory {A, B, C} with C, while
\* an unavailable listing was never the answer's concern
C31_Witness ==
    /\ {inventory[i] : i \in DOMAIN inventory} = {GpuA, GpuB, GpuC}
    /\ requirements = NoFilters("Beta")
    /\ gpu_choice = [called |-> TRUE, ok |-> TRUE, gpu |-> GpuC]

\* C32: enhance_computation is a function of its input: what it returns for
\* an input is what it returns for that input on a processor no other job
\* has used, whatever was enhanced before and whatever runs beside it.
C32_EnhancePure ==
    enhanced.called =>
        enhanced.output =
            ApplyConsciousnessTransform(enhanced.input,
                SelectConsciousnessLevel(AnalyzeComplexity(enhanced.input)))

\* C33: a queued task whose dependencies are all Completed eventually
\* enters Running (a backend is always available), whatever tasks that
\* are not ready sit in its band or in a higher one.
C33_ReadyTaskEventuallyRuns ==
    \A j \in Jobs :
        (serve_status[j] = "Pending" /\ JobReady(serve_status, serve_task[j].dependencies))
            ~> (serve_status[j] /= "Pending")

\* C34: a queued task one of whose dependencies ended Failed eventually
\* leaves the queue for a terminal Failed status of its own.
C34_FailedDependencyFailsTask ==
    \A j \in Jobs :
        (serve_status[j] = "Pending"
            /\ \E d \in serve_task[j].dependencies : serve_status[d] = "Failed")
            ~> (serve_status[j] = "Failed")

\* the available backends of the engine, by index
AvailableIndices == {i \in DOMAIN rr_registered : rr_registered[i].available}

\* every window of k consecutive selections holds k different backends
WindowsRotate(picks, k) ==
    \A s \in 1..Len(picks) :
        s + k - 1 <= Len(picks) =>
            \A i, j \in s..(s + k - 1) : picks[i] = picks[j] => i = j

\* C35: under RoundRobin with k >= 2 available backends and no hints, every
\* window of k consecutive selections selects each available backend once.
C35_RoundRobinRotates ==
    Cardinality(AvailableIndices) >= 2 =>
        /\ WindowsRotate(engine_picks, Cardinality(AvailableIndices))
        /\ WindowsRotate(scheduler_picks, Cardinality(AvailableIndices))

\* C36: outside a running allocate_gpu or release_gpu call for it, a job id
\* is in active_jobs exactly when its allocation at the provider is made
\* and not yet released, provider failures included.
C36_ActiveJobsMatchProvider ==
    \A j \in GpuJobs :
        gpu_call[j] /= "allocated" =>
            (j \in active_jobs <=> j \in provider_allocations)

\* C37: once TaskScheduler::shutdown has set the flag, no task enters
\* Running any more, neither through a worker nor through a submit call.
C37_NoRunningAfterShutdown ==
    [][\A t \in Tasks :
         shutdown => ~(active[t] = NoHandle /\ active'[t] /= NoHandle
                        /\ active'[t].status = Running)]_vars

C39_HandlesDisjoint ==
    /\ \A i \in DOMAIN live_handles :
          live_handles[i].offset + live_handles[i].size <= DeviceMemory
    /\ \A i, j \in DOMAIN live_handles :
          i < j =>
            \/ live_handles[i].offset + live_handles[i].size <= live_handles[j].offset
            \/ live_handles[j].offset + live_handles[j].size <= live_handles[i].offset

====
